---- MODULE Spec2Model ----
(***************************************************************************)
(* The transactional write and the notification dispatch of the amendment *)
(* and return controllers of gulls-health-and-safety-api.                  *)
(*                                                                         *)
(* A call of create is a small process: it opens one managed Sequelize     *)
(* transaction, inserts rows in it, commits, reads back what it needs and  *)
(* sends the Notify e-mails.  Every await is one step of the model.  An    *)
(* insert, and an outbound Notify call, may fail; a failure is an          *)
(* exception that nothing in the controllers catches.                      *)
(***************************************************************************)
EXTENDS Integers, Sequences, FiniteSets, TLC

VARIABLES db, nextId, txn, call, outbox, notifyApiKey, reminder

vars == <<db, nextId, txn, call, outbox, notifyApiKey, reminder>>

\* ------------------------------------------------------------------ bounds

\* The longest optionalConditions / optionalAdvisories list a call is given.
MaxJoin == 2

\* The days the reminder job is followed for.
MaxDays == 2

\* The longest sequence of requests the routes are followed for.
MaxRequests == 3

\* ------------------------------------------------------------- vocabulary

\* The calls of create the model follows.
Calls == {"call1"}

\* "No transaction" as the transaction option of Model.create.
NoTx == "no transaction"

\* The five species slots, in the order of the parameters of create:
\* herring, black-headed, common, great black-backed, lesser black-backed.
Slots == 1..5

Tables ==
  {"AActivity", "ASpecies", "Amendment", "AmendCondition", "AmendAdvisory",
   "Note", "ReturnActivity", "ReturnSpecies", "Returns"}

AmendCtls == {"part_002", "amendment.ts"}

NoAddr == "none"
InternalMailbox == "issuedlicence@nature.scot"
AmendTemplate == "9cfcaca5-ef5d-46c4-8ccf-328bcf67ad6d"
ReturnTemplate == "d5f606fd-2bc2-4d4e-ae46-faa2ea20e900"

\* Entries of optionalConditions shaped as ConditionInterface and as the
\* Condition model declare them: the key is the property Id.
InterfaceConditionEntries == {[Id |-> 4], [Id |-> 19]}

\* The entries an optionalConditions / optionalAdvisories list is made of.
ConditionEntries == {[id |-> 4], [id |-> 19]}
AdvisoryEntries == {[id |-> 1]}

ListsOver(S) == UNION {[1..n -> S] : n \in 0..MaxJoin}

\* A list parameter that may be undefined.
Undefined == [defined |-> FALSE, list |-> <<>>]
OptionalLists(S) == {Undefined} \cup {[defined |-> TRUE, list |-> l] : l \in ListsOver(S)}

\* incomingAmendment, as the route hands it to create.
IncomingAmendments ==
  [SpeciesId : {0}, LicenceId : {7}, amendReason : {"reason"}, amendedBy : {"officer"},
   licenceHolderEmailAddress : {NoAddr, "holder@example.org"},
   licenceApplicantEmailAddress : {NoAddr, "holder@example.org", "applicant@example.org"}]

\* cleanedReturn, as the route hands it to create.
CleanedReturns == [SpeciesId : {0}, LicenceId : {7}, confirmedReturn : {TRUE}]

NoReturn == [SpeciesId |-> 0, LicenceId |-> 0, confirmedReturn |-> FALSE]

NoIncoming ==
  [SpeciesId |-> 0, LicenceId |-> 0, amendReason |-> "", amendedBy |-> "",
   licenceHolderEmailAddress |-> NoAddr, licenceApplicantEmailAddress |-> NoAddr]

\* What ApplicationController.findOne may hand the amendment controller: no
\* row, the application with all its associations, or one association absent.
AppShapes ==
  {"null", "full", "noSiteAddress", "noLicense", "noLicenceHolder", "noLicenceHolderAddress"}

\* What ApplicationController.findOne may hand the return controller.
NoApplication == [found |-> FALSE, SiteAddressId |-> 0, LicenceHolderId |-> 0, LicenceApplicantId |-> 0]
ReturnApplications ==
  {NoApplication} \cup
  [found : {TRUE}, SiteAddressId : {0, 1}, LicenceHolderId : {0, 1}, LicenceApplicantId : {0, 1, 2}]

NoContact == [found |-> FALSE, id |-> 0, emailAddress |-> NoAddr]
ContactRows(id) ==
  {NoContact} \cup [found : {TRUE}, id : {id}, emailAddress : {NoAddr, "a@example.org", "b@example.org"}]

\* ------------------------------------------------------------------ store

NoRows == [t \in Tables |-> {}]
NoIds == [s \in Slots |-> 0]

\* Rows committed by earlier requests: one amendment of two species with one
\* condition, and one return of one species.
SeedDb ==
  [t \in Tables |->
     CASE t = "AActivity" -> {[id |-> 1, slot |-> 1], [id |-> 2, slot |-> 3]}
       [] t = "ASpecies" -> {[id |-> 1, ids |-> [s \in Slots |-> IF s = 1 THEN 1 ELSE IF s = 3 THEN 2 ELSE 0]]}
       [] t = "Amendment" ->
            {[id |-> 1, SpeciesId |-> 1, LicenceId |-> 7, amendReason |-> "earlier", amendedBy |-> "officer"]}
       [] t = "AmendCondition" -> {[id |-> 1, AmendmentId |-> 1, ConditionId |-> 12]}
       [] t = "AmendAdvisory" -> {}
       [] t = "Note" -> {[id |-> 1, Note |-> "earlier", createdBy |-> "officer", ApplicationId |-> 7]}
       [] t = "ReturnActivity" -> {[id |-> 1, slot |-> 2]}
       [] t = "ReturnSpecies" -> {[id |-> 1, ids |-> [s \in Slots |-> IF s = 2 THEN 1 ELSE 0]]}
       [] t = "Returns" -> {[id |-> 1, SpeciesId |-> 1, LicenceId |-> 7, confirmedReturn |-> TRUE]}]

\* The next key of each table's auto-increment sequence.
IdsAfter(d) == [t \in Tables |-> Cardinality(d[t]) + 1]

\* The row Model.create builds from the values: it takes the table's next key.
NewRow(table, values) == [id |-> nextId[table]] @@ values

\* Model.create(values, {transaction: t}) when the insert succeeds: the row
\* is pending in t, or committed at once without a transaction.
Create(table, values, t) ==
  LET row == NewRow(table, values)
  IN /\ nextId' = [nextId EXCEPT ![table] = @ + 1]
     /\ IF t = NoTx
          THEN /\ db' = [db EXCEPT ![table] = @ \cup {row}]
               /\ UNCHANGED txn
          ELSE /\ txn' = [txn EXCEPT ![t].rows[table] = @ \cup {row}]
               /\ UNCHANGED db

\* A faulty variant, for comparison: the key recorded is the one after the
\* row's.
NewIdOffByOne(table) == nextId[table] + 1

\* The key Create gives the row it inserts.
NewId(table) == nextId[table]

\* The transaction option every call site passes: {transaction: t}.
NoTransaction(c) == NoTx
AActivityTx(c) == c
ASpeciesTx(c) == c
AmendmentTx(c) == c
AmendConditionTx(c) == c
AmendAdvisoryTx(c) == c
NoteTx(c) == c
ReturnActivityTx(c) == c
ReturnSpeciesTx(c) == c
ReturnsTx(c) == c

\* ------------------------------------------------------------- call state

NoPersonalisation ==
  [complete |-> FALSE, licenceNumber |-> 0, species |-> {}, conditions |-> {}, advisories |-> {}]

\* The activity rows an include loads, by the alias each is loaded under.
NoneLoaded == [a \in {} |-> 0]

NoDetails ==
  [found |-> FALSE, id |-> 0, amendReason |-> "", amendedBy |-> "",
   speciesFound |-> FALSE, ids |-> NoIds, loaded |-> NoneLoaded,
   AmendConditions |-> {}, AmendAdvisories |-> {}]

IdleCall ==
  [ctl |-> "idle", pc |-> "idle",
   incoming |-> NoIncoming, cleanedReturn |-> NoReturn,
   slot |-> 1, payloads |-> {}, speciesIds |-> NoIds,
   newRow |-> 0, amendmentId |-> 0,
   optionalConditions |-> Undefined, optionalAdvisories |-> Undefined,
   issued |-> FALSE, inflight |-> {},
   application |-> "null", amendmentDetails |-> NoDetails,
   applicationDetails |-> NoApplication, siteAddress |-> FALSE,
   licenceHolder |-> NoContact, licenceApplicant |-> NoContact,
   emailDetails |-> NoPersonalisation,
   result |-> 0, rows |-> {}, served |-> 0, returnDetails |-> NoneLoaded,
   inserted |-> {}, failedAt |-> "none"]

\* ------------------------------------------------------------ control flow

\* The awaits of create, in program order.
FlowCommitLast(ctl) ==
  CASE ctl = "part_002" ->
         <<"activity", "aspecies", "amendment", "conditions", "advisories", "note",
           "findApplication", "findAmendment", "compose", "holder", "applicant", "internal",
           "commit", "return", "returned">>
    [] ctl = "amendment.ts" ->
         <<"activity", "aspecies", "amendment", "conditions", "advisories", "note",
           "findApplication", "holder", "applicant", "internal", "commit", "return", "returned">>
    [] OTHER ->
         <<"activity", "species", "returns",
           "findApplication", "siteAddress", "licenceHolder", "licenceApplicant", "compose",
           "holder", "applicant", "commit", "return", "returned">>

Flow(ctl) ==
  CASE ctl = "part_002" ->
         <<"activity", "aspecies", "amendment", "conditions", "advisories", "note", "commit",
           "findApplication", "findAmendment", "compose", "holder", "applicant", "internal",
           "return", "returned">>
    [] ctl = "amendment.ts" ->
         <<"activity", "aspecies", "amendment", "conditions", "advisories", "note", "commit",
           "findApplication", "holder", "applicant", "internal", "return", "returned">>
    [] OTHER ->
         <<"activity", "species", "returns", "commit",
           "findApplication", "siteAddress", "licenceHolder", "licenceApplicant", "compose",
           "holder", "applicant", "return", "returned">>

Succ(ctl, pc) ==
  LET f == Flow(ctl)
      i == CHOOSE k \in 1..Len(f) : f[k] = pc
  IN f[i + 1]

\* The call record moved on to the await after pc.
Step(r) == [r EXCEPT !.pc = Succ(r.ctl, r.pc)]

\* create rejects: the exception leaves the function.
CreateRejects(r, what) == [r EXCEPT !.pc = "threw", !.failedAt = what]

\* A faulty variant, for comparison: the rejection of the transaction is swallowed and create goes on
\* with the statement after it.
TransactionSwallowed(r, what) == [r EXCEPT !.pc = Succ(r.ctl, "commit"), !.failedAt = what]

\* The callback of sequelize.transaction threw: the awaited promise rejects,
\* and create, which has no try/catch around it, rejects with it.
TransactionRejected(r, what) == CreateRejects(r, what)

\* An exception raised in call c.  Inside the callback of the managed
\* transaction Sequelize rolls the transaction back and rethrows; after the
\* transaction nothing is undone.  r is the call record at the throw.
Throw(c, r, what) ==
  IF txn[c].state = "open"
    THEN /\ txn' = [txn EXCEPT ![c] = [state |-> "rollback", rows |-> NoRows]]
         /\ call' = [call EXCEPT ![c] = TransactionRejected(r, what)]
    ELSE /\ UNCHANGED txn
         /\ call' = [call EXCEPT ![c] = CreateRejects(r, what)]

\* The reminder job of server.ts at start-up: the clock at midnight of day
\* 0, the job scheduled and never fired, no request made, nothing logged.
NoReminder ==
  [day |-> 0, hour |-> 0, alive |-> TRUE, fired |-> 0, requests |-> <<>>, log |-> <<>>]

\* ------------------------------------------------------------------- init

Init ==
  /\ db \in {NoRows, SeedDb}
  /\ nextId = IdsAfter(db)
  /\ txn = [c \in Calls |-> [state |-> "none", rows |-> NoRows]]
  /\ call = [c \in Calls |-> IdleCall]
  /\ outbox = <<>>
  /\ notifyApiKey \in BOOLEAN
  /\ reminder = NoReminder

\* ------------------------------------------- AmendmentController.create

\* create of one of the controllers ctls is called with one of the request
\* bodies: the locals are initialised and the transaction opens.
AmendBeginWith(c, ctls, bodies) ==
  /\ call[c].pc = "idle"
  /\ \E ctl \in ctls, incoming \in bodies :
       call' = [call EXCEPT ![c] = [@ EXCEPT !.ctl = ctl, !.pc = "activity", !.incoming = incoming]]
  /\ txn' = [txn EXCEPT ![c] = [state |-> "open", rows |-> NoRows]]
  /\ UNCHANGED <<db, nextId, outbox, notifyApiKey, reminder>>

\* create is called.
AmendBegin(c) == AmendBeginWith(c, AmendCtls, IncomingAmendments)

\* The call record after the species slot r.slot has been dealt with.
NextSlot(r) == IF r.slot = 5 THEN Step([r EXCEPT !.slot = 6]) ELSE [r EXCEPT !.slot = @ + 1]

\* if (herringAmend) { ... AActivity.create(herringAmend, {transaction: t}) ... }
\* and the same for the other four slots.
AmendActivity(c) ==
  LET r == call[c] IN
  /\ r.ctl \in AmendCtls /\ r.pc = "activity"
  /\ \E given \in BOOLEAN, ok \in BOOLEAN :
       IF ~given
         THEN /\ call' = [call EXCEPT ![c] = NextSlot(r)]
              /\ UNCHANGED <<db, nextId, txn>>
         ELSE IF ok
           THEN /\ Create("AActivity", [slot |-> r.slot], AActivityTx(c))
                /\ call' = [call EXCEPT ![c] =
                     NextSlot([r EXCEPT !.payloads = @ \cup {r.slot},
                                        !.speciesIds[r.slot] = NewId("AActivity"),
                                        !.inserted = @ \cup {<<"AActivity", NewRow("AActivity", [slot |-> r.slot])>>}])]
           ELSE /\ Throw(c, [r EXCEPT !.payloads = @ \cup {r.slot}], "insert")
                /\ UNCHANGED <<db, nextId>>
  /\ UNCHANGED <<outbox, notifyApiKey, reminder>>

\* const newASpecies = await ASpecies.create(aSpeciesIds, {transaction: t});
\* incomingAmendment.SpeciesId = newASpecies.id;
AmendSpecies(c) ==
  LET r == call[c] IN
  /\ r.ctl \in AmendCtls /\ r.pc = "aspecies"
  /\ \E ok \in BOOLEAN :
       IF ok
         THEN /\ Create("ASpecies", [ids |-> r.speciesIds], ASpeciesTx(c))
              /\ call' = [call EXCEPT ![c] =
                   Step([r EXCEPT !.incoming.SpeciesId = NewId("ASpecies"),
                                  !.inserted = @ \cup {<<"ASpecies", NewRow("ASpecies", [ids |-> r.speciesIds])>>}])]
         ELSE /\ Throw(c, r, "insert")
              /\ UNCHANGED <<db, nextId>>
  /\ UNCHANGED <<outbox, notifyApiKey, reminder>>

\* The columns of the Amendment row made from incomingAmendment.
AmendmentValues(incoming) ==
  [SpeciesId |-> incoming.SpeciesId, LicenceId |-> incoming.LicenceId,
   amendReason |-> incoming.amendReason, amendedBy |-> incoming.amendedBy]

\* newAmendment = await Amendment.create(incomingAmendment, {transaction: t});
\* amendmentId = newAmendment.id;
AmendAmendment(c) ==
  LET r == call[c] IN
  /\ r.ctl \in AmendCtls /\ r.pc = "amendment"
  /\ \E ok \in BOOLEAN :
       IF ok
         THEN /\ Create("Amendment", AmendmentValues(r.incoming), AmendmentTx(c))
              /\ call' = [call EXCEPT ![c] =
                   Step([r EXCEPT !.newRow = NewId("Amendment"),
                                  !.amendmentId = NewId("Amendment"),
                                  !.inserted = @ \cup {<<"Amendment", NewRow("Amendment", AmendmentValues(r.incoming))>>}])]
         ELSE /\ Throw(c, r, "insert")
              /\ UNCHANGED <<db, nextId>>
  /\ UNCHANGED <<outbox, notifyApiKey, reminder>>

\* The inserts of one kind ("AmendCondition" or "AmendAdvisory") in flight.
InFlight(r, kind) == {j \in r.inflight : j[1] = kind}

\* A faulty variant, for comparison: the promises are not awaited.
PromiseAllNoWait(pending) == TRUE

\* await Promise.all(promises) resumes once every promise has resolved.  (A
\* rejection is an exception: see Throw.)
PromiseAll(pending) == pending = {}

\* if (optionalConditions) { await Promise.all(optionalConditions.map(async ...)) }
\* with optionalConditions one of lists: map starts every insert; none has
\* settled yet.
AmendIssueConditionsFrom(c, lists) ==
  LET r == call[c] IN
  /\ r.ctl \in AmendCtls /\ r.pc = "conditions" /\ ~r.issued
  /\ \E oc \in lists :
       call' = [call EXCEPT ![c] =
         IF oc.defined
           THEN [r EXCEPT !.optionalConditions = oc, !.issued = TRUE,
                          !.inflight = @ \cup {<<"AmendCondition", i>> : i \in 1..Len(oc.list)}]
           ELSE Step([r EXCEPT !.optionalConditions = oc])]
  /\ UNCHANGED <<db, nextId, txn, outbox, notifyApiKey, reminder>>

\* The conditions are read: the entries are those the route hands over.
AmendIssueConditions(c) == AmendIssueConditionsFrom(c, OptionalLists(ConditionEntries))

\* entry.id: the value of the property named id, undefined (0, as in NoIds)
\* when the object has no property of that name.
PropertyId(entry) == IF "id" \in DOMAIN entry THEN entry.id ELSE 0

\* {AmendmentId: amendmentId, ConditionId: optionalJsonCondition.id}
AmendConditionValues(r, i) ==
  [AmendmentId |-> r.amendmentId, ConditionId |-> PropertyId(r.optionalConditions.list[i])]

\* One AmendCondition.create({AmendmentId, ConditionId}, {transaction: t})
\* settles.  Once the transaction has finished Sequelize rejects the query.
AmendSettleCondition(c) ==
  LET r == call[c] IN
  /\ r.ctl \in AmendCtls
  /\ \E j \in InFlight(r, "AmendCondition"), ok \in BOOLEAN :
       LET s == [r EXCEPT !.inflight = @ \ {j}] IN
       IF txn[c].state # "open"
         THEN /\ call' = [call EXCEPT ![c] = s]
              /\ UNCHANGED <<db, nextId, txn>>
         ELSE IF ok
           THEN /\ Create("AmendCondition", AmendConditionValues(r, j[2]), AmendConditionTx(c))
                /\ call' = [call EXCEPT ![c] =
                     [s EXCEPT !.inserted = @ \cup {<<"AmendCondition", NewRow("AmendCondition", AmendConditionValues(r, j[2]))>>}]]
           ELSE /\ Throw(c, s, "insert")
                /\ UNCHANGED <<db, nextId>>
  /\ UNCHANGED <<outbox, notifyApiKey, reminder>>

\* The await of Promise.all over the condition inserts resumes.
AmendConditionsResolved(c) ==
  LET r == call[c] IN
  /\ r.ctl \in AmendCtls /\ r.pc = "conditions" /\ r.issued
  /\ PromiseAll(InFlight(r, "AmendCondition"))
  /\ call' = [call EXCEPT ![c] = Step([r EXCEPT !.issued = FALSE])]
  /\ UNCHANGED <<db, nextId, txn, outbox, notifyApiKey, reminder>>

\* if (optionalAdvisories) { await Promise.all(optionalAdvisories.map(async ...)) }
AmendIssueAdvisories(c) ==
  LET r == call[c] IN
  /\ r.ctl \in AmendCtls /\ r.pc = "advisories" /\ ~r.issued
  /\ \E oa \in OptionalLists(AdvisoryEntries) :
       call' = [call EXCEPT ![c] =
         IF oa.defined
           THEN [r EXCEPT !.optionalAdvisories = oa, !.issued = TRUE,
                          !.inflight = @ \cup {<<"AmendAdvisory", i>> : i \in 1..Len(oa.list)}]
           ELSE Step([r EXCEPT !.optionalAdvisories = oa])]
  /\ UNCHANGED <<db, nextId, txn, outbox, notifyApiKey, reminder>>

\* {AmendmentId: amendmentId, AdvisoryId: optionalJsonAdvisory.id}
AmendAdvisoryValues(r, i) ==
  [AmendmentId |-> r.amendmentId, AdvisoryId |-> PropertyId(r.optionalAdvisories.list[i])]

\* One AmendAdvisory.create({AmendmentId, AdvisoryId}, {transaction: t}) settles.
AmendSettleAdvisory(c) ==
  LET r == call[c] IN
  /\ r.ctl \in AmendCtls
  /\ \E j \in InFlight(r, "AmendAdvisory"), ok \in BOOLEAN :
       LET s == [r EXCEPT !.inflight = @ \ {j}] IN
       IF txn[c].state # "open"
         THEN /\ call' = [call EXCEPT ![c] = s]
              /\ UNCHANGED <<db, nextId, txn>>
         ELSE IF ok
           THEN /\ Create("AmendAdvisory", AmendAdvisoryValues(r, j[2]), AmendAdvisoryTx(c))
                /\ call' = [call EXCEPT ![c] =
                     [s EXCEPT !.inserted = @ \cup {<<"AmendAdvisory", NewRow("AmendAdvisory", AmendAdvisoryValues(r, j[2]))>>}]]
           ELSE /\ Throw(c, s, "insert")
                /\ UNCHANGED <<db, nextId>>
  /\ UNCHANGED <<outbox, notifyApiKey, reminder>>

\* The await of Promise.all over the advisory inserts resumes.
AmendAdvisoriesResolved(c) ==
  LET r == call[c] IN
  /\ r.ctl \in AmendCtls /\ r.pc = "advisories" /\ r.issued
  /\ PromiseAll(InFlight(r, "AmendAdvisory"))
  /\ call' = [call EXCEPT ![c] = Step([r EXCEPT !.issued = FALSE])]
  /\ UNCHANGED <<db, nextId, txn, outbox, notifyApiKey, reminder>>

\* amendmentNote = {Note: amendReason, createdBy: amendedBy, ApplicationId: LicenceId}
NoteValues(incoming) ==
  [Note |-> incoming.amendReason, createdBy |-> incoming.amendedBy,
   ApplicationId |-> incoming.LicenceId]

\* await Note.create(amendmentNote, {transaction: t});
AmendNote(c) ==
  LET r == call[c] IN
  /\ r.ctl \in AmendCtls /\ r.pc = "note"
  /\ \E ok \in BOOLEAN :
       IF ok
         THEN /\ Create("Note", NoteValues(r.incoming), NoteTx(c))
              /\ call' = [call EXCEPT ![c] =
                   Step([r EXCEPT !.inserted = @ \cup {<<"Note", NewRow("Note", NoteValues(r.incoming))>>}])]
         ELSE /\ Throw(c, r, "insert")
              /\ UNCHANGED <<db, nextId>>
  /\ UNCHANGED <<outbox, notifyApiKey, reminder>>

\* A faulty variant, for comparison: the commit of one call writes the rows
\* of every transaction that is open.
CommitShared(c) ==
  LET r == call[c] IN
  /\ r.pc = "commit" /\ txn[c].state = "open"
  /\ db' = [t \in Tables |->
              db[t] \cup UNION {txn[d].rows[t] : d \in {e \in DOMAIN txn : txn[e].state = "open"}}]
  /\ txn' = [txn EXCEPT ![c] = [state |-> "commit", rows |-> NoRows]]
  /\ call' = [call EXCEPT ![c] = Step(r)]
  /\ UNCHANGED <<nextId, outbox, notifyApiKey, reminder>>

\* A faulty variant, for comparison: the commit writes each pending row over
\* the committed row before it in its table.
CommitOverwriting(c) ==
  LET r == call[c] IN
  /\ r.pc = "commit" /\ txn[c].state = "open"
  /\ db' = [t \in Tables |->
              {x \in db[t] : \A y \in txn[c].rows[t] : x.id + 1 # y.id} \cup txn[c].rows[t]]
  /\ txn' = [txn EXCEPT ![c] = [state |-> "commit", rows |-> NoRows]]
  /\ call' = [call EXCEPT ![c] = Step(r)]
  /\ UNCHANGED <<nextId, outbox, notifyApiKey, reminder>>

\* The callback returned: Sequelize commits the transaction, and the rows
\* pending in it become the committed rows.
Commit(c) ==
  LET r == call[c] IN
  /\ r.pc = "commit" /\ txn[c].state = "open"
  /\ db' = [t \in Tables |-> db[t] \cup txn[c].rows[t]]
  /\ txn' = [txn EXCEPT ![c] = [state |-> "commit", rows |-> NoRows]]
  /\ call' = [call EXCEPT ![c] = Step(r)]
  /\ UNCHANGED <<nextId, outbox, notifyApiKey, reminder>>

\* The aliases under which findOne loads the five activity rows of ASpecies.
IncludeAlias == <<"AHerringGull", "ABlackHGull", "ACommonGull", "AGreatBBGull", "ALesserBBGull">>

\* The properties createPermittedActivitiesList reads the activity rows from.
ReadAlias ==
  <<"AHerringGull", "ABlackHeadedGull", "ACommonGull", "AGreatBlackBackedGull",
    "ALesserBlackBackedGull">>

\* The activity rows of a species aggregate, each under the alias of the
\* include that loads it: the row a set key of the aggregate points to.
LoadActivities(ids, aliases, rows) ==
  LET set == {s \in Slots : \E x \in rows : x.id = ids[s]}
  IN [a \in {aliases[s] : s \in set} |->
        CHOOSE x \in rows : \E s \in set : aliases[s] = a /\ x.id = ids[s]]

\* A faulty variant, for comparison: the join rows of every amendment are loaded.
FindOneUnscoped(id) ==
  IF \E a \in db["Amendment"] : a.id = id
    THEN LET a == CHOOSE x \in db["Amendment"] : x.id = id
             sp == {x \in db["ASpecies"] : x.id = a.SpeciesId}
             ids == IF sp = {} THEN NoIds ELSE (CHOOSE x \in sp : TRUE).ids
         IN [found |-> TRUE, id |-> id, amendReason |-> a.amendReason, amendedBy |-> a.amendedBy,
             speciesFound |-> sp # {}, ids |-> ids,
             loaded |-> LoadActivities(ids, IncludeAlias, db["AActivity"]),
             AmendConditions |-> db["AmendCondition"],
             AmendAdvisories |-> db["AmendAdvisory"]]
    ELSE NoDetails

\* AmendmentController.findOne(id): the committed amendment with its species
\* aggregate, the activity rows of the aggregate and its join rows, or
\* nothing.  It is given no transaction.
AmendmentFindOne(id) ==
  IF \E a \in db["Amendment"] : a.id = id
    THEN LET a == CHOOSE x \in db["Amendment"] : x.id = id
             sp == {x \in db["ASpecies"] : x.id = a.SpeciesId}
             ids == IF sp = {} THEN NoIds ELSE (CHOOSE x \in sp : TRUE).ids
         IN [found |-> TRUE, id |-> id, amendReason |-> a.amendReason, amendedBy |-> a.amendedBy,
             speciesFound |-> sp # {}, ids |-> ids,
             loaded |-> LoadActivities(ids, IncludeAlias, db["AActivity"]),
             AmendConditions |-> {x \in db["AmendCondition"] : x.AmendmentId = id},
             AmendAdvisories |-> {x \in db["AmendAdvisory"] : x.AmendmentId = id}]
    ELSE NoDetails

\* setAmendEmailPersonalisationFields throws a TypeError when it reads a
\* property of null or undefined: the application or one of its associations,
\* the amendment, its species aggregate, or an activity row that findOne
\* loaded under another name than the one addActivities is handed.
ComposeThrows(application, d) ==
  \/ application # "full"
  \/ ~d.found
  \/ ~d.speciesFound
  \/ \E s \in Slots : d.ids[s] # 0 /\ ReadAlias[s] # IncludeAlias[s]

\* The personalisation setAmendEmailPersonalisationFields builds, by what it
\* is built from.
Personalisation(licenceNumber, d) ==
  [complete |-> TRUE, licenceNumber |-> licenceNumber,
   species |-> {s \in Slots : d.ids[s] # 0},
   conditions |-> {x.ConditionId : x \in d.AmendConditions},
   advisories |-> {x.AdvisoryId : x \in d.AmendAdvisories}]

\* The personalisation sendAmendedEmail hands Notify: emailDetails in
\* part_002; in amendment.ts it takes the address alone and hands none.
SentPersonalisation(ctl, emailDetails) ==
  IF ctl = "part_002" THEN emailDetails ELSE NoPersonalisation

\* A faulty variant, for comparison: sendEmail is called whether or not a
\* Notify key is configured.
DispatchKeyless(c, r, template, to, personalisation) ==
  \E delivered \in BOOLEAN :
    /\ outbox' = Append(outbox,
         [call |-> c, template |-> template, to |-> to,
          personalisation |-> personalisation, delivered |-> delivered])
    /\ IF delivered
         THEN /\ call' = [call EXCEPT ![c] = r]
              /\ UNCHANGED txn
         ELSE Throw(c, r, "dispatch")

\* sendAmendedEmail / sendLicenceReturnNotificationEmail: with a Notify key
\* one sendEmail call goes out, and its rejection is not caught; without a
\* key nothing happens.  r is the call record once the await resumes.
Dispatch(c, r, template, to, personalisation) ==
  IF notifyApiKey
    THEN \E delivered \in BOOLEAN :
           /\ outbox' = Append(outbox,
                [call |-> c, template |-> template, to |-> to,
                 personalisation |-> personalisation, delivered |-> delivered])
           /\ IF delivered
                THEN /\ call' = [call EXCEPT ![c] = r]
                     /\ UNCHANGED txn
                ELSE Throw(c, r, "dispatch")
    ELSE /\ call' = [call EXCEPT ![c] = r]
         /\ UNCHANGED <<outbox, txn>>

\* const application = await ApplicationController.findOne(incomingAmendment.LicenceId)
AmendFindApplication(c) ==
  LET r == call[c] IN
  /\ r.ctl \in AmendCtls /\ r.pc = "findApplication"
  /\ \E app \in AppShapes : call' = [call EXCEPT ![c] = Step([r EXCEPT !.application = app])]
  /\ UNCHANGED <<db, nextId, txn, outbox, notifyApiKey, reminder>>

\* if (amendmentId) { amendmentDetails = await AmendmentController.findOne(amendmentId) }
AmendFindAmendment(c) ==
  LET r == call[c] IN
  /\ r.ctl = "part_002" /\ r.pc = "findAmendment"
  /\ call' = [call EXCEPT ![c] =
       Step(IF r.amendmentId # 0
              THEN [r EXCEPT !.amendmentDetails = AmendmentFindOne(r.amendmentId)]
              ELSE r)]
  /\ UNCHANGED <<db, nextId, txn, outbox, notifyApiKey, reminder>>

\* const emailDetails = setAmendEmailPersonalisationFields(application, amendmentDetails)
AmendCompose(c) ==
  LET r == call[c] IN
  /\ r.ctl = "part_002" /\ r.pc = "compose"
  /\ IF ComposeThrows(r.application, r.amendmentDetails)
       THEN Throw(c, r, "compose")
       ELSE /\ call' = [call EXCEPT ![c] =
                 Step([r EXCEPT !.emailDetails =
                         Personalisation(r.incoming.LicenceId, r.amendmentDetails)])]
            /\ UNCHANGED txn
  /\ UNCHANGED <<db, nextId, outbox, notifyApiKey, reminder>>

\* if (incomingAmendment.licenceHolderEmailAddress) { await sendAmendedEmail(...) }
\* In amendment.ts the personalisation is built here, from the application alone.
AmendHolder(c) ==
  LET r == call[c]
      to == r.incoming.licenceHolderEmailAddress
  IN
  /\ r.ctl \in AmendCtls /\ r.pc = "holder"
  /\ IF to = NoAddr
       THEN /\ call' = [call EXCEPT ![c] = Step(r)]
            /\ UNCHANGED <<txn, outbox>>
       ELSE IF r.ctl = "amendment.ts" /\ r.application # "full"
         THEN /\ Throw(c, r, "compose")
              /\ UNCHANGED outbox
         ELSE Dispatch(c, Step(r), AmendTemplate, to, SentPersonalisation(r.ctl, r.emailDetails))
  /\ UNCHANGED <<db, nextId, notifyApiKey, reminder>>

\* if (incomingAmendment.licenceApplicantEmailAddress) { await sendAmendedEmail(...) }
AmendApplicant(c) ==
  LET r == call[c]
      to == r.incoming.licenceApplicantEmailAddress
  IN
  /\ r.ctl \in AmendCtls /\ r.pc = "applicant"
  /\ IF to = NoAddr
       THEN /\ call' = [call EXCEPT ![c] = Step(r)]
            /\ UNCHANGED <<txn, outbox>>
       ELSE Dispatch(c, Step(r), AmendTemplate, to, SentPersonalisation(r.ctl, r.emailDetails))
  /\ UNCHANGED <<db, nextId, notifyApiKey, reminder>>

\* await sendAmendedEmail('issuedlicence@nature.scot', emailDetails);
AmendInternal(c) ==
  LET r == call[c] IN
  /\ r.ctl \in AmendCtls /\ r.pc = "internal"
  /\ Dispatch(c, Step(r), AmendTemplate, InternalMailbox, SentPersonalisation(r.ctl, r.emailDetails))
  /\ UNCHANGED <<db, nextId, notifyApiKey, reminder>>

\* if (newAmendment) { return newAmendment } return undefined;  (0 is undefined.)
ReturnValue(r) == IF r.newRow # 0 THEN r.newRow ELSE 0

\* create returns to its caller.
Return(c) ==
  LET r == call[c] IN
  /\ r.pc = "return"
  /\ call' = [call EXCEPT ![c] = Step([r EXCEPT !.result = ReturnValue(r)])]
  /\ UNCHANGED <<db, nextId, txn, outbox, notifyApiKey, reminder>>

\* --------------------------------------------- ReturnsController.create

\* create is called: the locals are initialised and the transaction opens.
ReturnsBegin(c) ==
  /\ call[c].pc = "idle"
  /\ \E cleanedReturn \in CleanedReturns :
       call' = [call EXCEPT ![c] =
         [@ EXCEPT !.ctl = "returns.ts", !.pc = "activity", !.cleanedReturn = cleanedReturn]]
  /\ txn' = [txn EXCEPT ![c] = [state |-> "open", rows |-> NoRows]]
  /\ UNCHANGED <<db, nextId, outbox, notifyApiKey, reminder>>

\* if (herringReturnActivity) { ... ReturnActivity.create(..., {transaction: t}) ... }
\* and the same for the other four slots.
ReturnsActivity(c) ==
  LET r == call[c] IN
  /\ r.ctl = "returns.ts" /\ r.pc = "activity"
  /\ \E given \in BOOLEAN, ok \in BOOLEAN :
       IF ~given
         THEN /\ call' = [call EXCEPT ![c] = NextSlot(r)]
              /\ UNCHANGED <<db, nextId, txn>>
         ELSE IF ok
           THEN /\ Create("ReturnActivity", [slot |-> r.slot], ReturnActivityTx(c))
                /\ call' = [call EXCEPT ![c] =
                     NextSlot([r EXCEPT !.payloads = @ \cup {r.slot},
                                        !.speciesIds[r.slot] = NewId("ReturnActivity"),
                                        !.inserted = @ \cup {<<"ReturnActivity", NewRow("ReturnActivity", [slot |-> r.slot])>>}])]
           ELSE /\ Throw(c, [r EXCEPT !.payloads = @ \cup {r.slot}], "insert")
                /\ UNCHANGED <<db, nextId>>
  /\ UNCHANGED <<outbox, notifyApiKey, reminder>>

\* const newReturnSpecies = await ReturnSpecies.create(speciesIds, {transaction: t});
\* cleanedReturn.SpeciesId = newReturnSpecies.id;
ReturnsSpecies(c) ==
  LET r == call[c] IN
  /\ r.ctl = "returns.ts" /\ r.pc = "species"
  /\ \E ok \in BOOLEAN :
       IF ok
         THEN /\ Create("ReturnSpecies", [ids |-> r.speciesIds], ReturnSpeciesTx(c))
              /\ call' = [call EXCEPT ![c] =
                   Step([r EXCEPT !.cleanedReturn.SpeciesId = NewId("ReturnSpecies"),
                                  !.inserted = @ \cup {<<"ReturnSpecies", NewRow("ReturnSpecies", [ids |-> r.speciesIds])>>}])]
         ELSE /\ Throw(c, r, "insert")
              /\ UNCHANGED <<db, nextId>>
  /\ UNCHANGED <<outbox, notifyApiKey, reminder>>

\* newReturn = await Returns.create(cleanedReturn, {transaction: t});
ReturnsReturns(c) ==
  LET r == call[c] IN
  /\ r.ctl = "returns.ts" /\ r.pc = "returns"
  /\ \E ok \in BOOLEAN :
       IF ok
         THEN /\ Create("Returns", r.cleanedReturn, ReturnsTx(c))
              /\ call' = [call EXCEPT ![c] =
                   Step([r EXCEPT !.newRow = NewId("Returns"),
                                  !.inserted = @ \cup {<<"Returns", NewRow("Returns", r.cleanedReturn)>>}])]
         ELSE /\ Throw(c, r, "insert")
              /\ UNCHANGED <<db, nextId>>
  /\ UNCHANGED <<outbox, notifyApiKey, reminder>>

\* if (newReturn) { applicationDetails = await ApplicationController.findOne(newReturn.LicenceId) }
ReturnsFindApplication(c) ==
  LET r == call[c] IN
  /\ r.ctl = "returns.ts" /\ r.pc = "findApplication"
  /\ \E app \in ReturnApplications :
       call' = [call EXCEPT ![c] =
         Step(IF r.newRow # 0 THEN [r EXCEPT !.applicationDetails = app] ELSE r)]
  /\ UNCHANGED <<db, nextId, txn, outbox, notifyApiKey, reminder>>

\* if (applicationDetails?.SiteAddressId) { siteAddress = await AddressController.findOne(...) }
ReturnsSiteAddress(c) ==
  LET r == call[c] IN
  /\ r.ctl = "returns.ts" /\ r.pc = "siteAddress"
  /\ \E found \in BOOLEAN :
       call' = [call EXCEPT ![c] =
         Step(IF r.applicationDetails.found /\ r.applicationDetails.SiteAddressId # 0
                THEN [r EXCEPT !.siteAddress = found]
                ELSE r)]
  /\ UNCHANGED <<db, nextId, txn, outbox, notifyApiKey, reminder>>

\* if (applicationDetails?.LicenceHolderId) { licenceHolder = await ContactController.findOne(...) }
ReturnsLicenceHolder(c) ==
  LET r == call[c]
      id == r.applicationDetails.LicenceHolderId
  IN
  /\ r.ctl = "returns.ts" /\ r.pc = "licenceHolder"
  /\ \E contact \in ContactRows(id) :
       call' = [call EXCEPT ![c] =
         Step(IF r.applicationDetails.found /\ id # 0
                THEN [r EXCEPT !.licenceHolder = contact]
                ELSE r)]
  /\ UNCHANGED <<db, nextId, txn, outbox, notifyApiKey, reminder>>

\* if (applicationDetails?.LicenceApplicantId) { licenceApplicant = await ContactController.findOne(...) }
\* The same contact id reads the same contact row as the holder's read did.
ReturnsLicenceApplicant(c) ==
  LET r == call[c]
      id == r.applicationDetails.LicenceApplicantId
  IN
  /\ r.ctl = "returns.ts" /\ r.pc = "licenceApplicant"
  /\ \E contact \in ContactRows(id) :
       /\ id = r.applicationDetails.LicenceHolderId => contact = r.licenceHolder
       /\ call' = [call EXCEPT ![c] =
            Step(IF r.applicationDetails.found /\ id # 0
                   THEN [r EXCEPT !.licenceApplicant = contact]
                   ELSE r)]
  /\ UNCHANGED <<db, nextId, txn, outbox, notifyApiKey, reminder>>

\* The personalisation setReturnNotificationDetails builds, by what it is
\* built from: the licence id and the activities handed to create.
ReturnNotificationDetails(licenceId, returnDetails) ==
  [complete |-> TRUE, licenceNumber |-> licenceId, species |-> returnDetails,
   conditions |-> {}, advisories |-> {}]

\* returnDetails is filled from the activities given, and
\* if (newReturn) { const emailDetails = setReturnNotificationDetails(...) }:
\* createSummaryAddress(siteAddress) throws a TypeError on no site address.
ReturnsCompose(c) ==
  LET r == call[c] IN
  /\ r.ctl = "returns.ts" /\ r.pc = "compose"
  /\ IF r.newRow = 0
       THEN /\ call' = [call EXCEPT ![c] = Step(r)]
            /\ UNCHANGED txn
       ELSE IF ~r.siteAddress
         THEN Throw(c, r, "compose")
         ELSE /\ call' = [call EXCEPT ![c] =
                   Step([r EXCEPT !.emailDetails =
                           ReturnNotificationDetails(r.cleanedReturn.LicenceId, r.payloads)])]
              /\ UNCHANGED txn
  /\ UNCHANGED <<db, nextId, outbox, notifyApiKey, reminder>>

\* licenceHolder && licenceHolder?.id === licenceApplicant?.id
SameContact(holder, applicant) == holder.found /\ applicant.found /\ holder.id = applicant.id

\* if (same contact) { send to licenceHolder.emailAddress }
\* else { if (licenceHolder?.emailAddress) { send to it } ... }
ReturnsHolder(c) ==
  LET r == call[c] IN
  /\ r.ctl = "returns.ts" /\ r.pc = "holder"
  /\ IF r.newRow = 0
       THEN /\ call' = [call EXCEPT ![c] = Step(r)]
            /\ UNCHANGED <<txn, outbox>>
       ELSE IF SameContact(r.licenceHolder, r.licenceApplicant)
         THEN Dispatch(c, Step(Step(r)), ReturnTemplate, r.licenceHolder.emailAddress, r.emailDetails)
         ELSE IF r.licenceHolder.found /\ r.licenceHolder.emailAddress # NoAddr
           THEN Dispatch(c, Step(r), ReturnTemplate, r.licenceHolder.emailAddress, r.emailDetails)
           ELSE /\ call' = [call EXCEPT ![c] = Step(r)]
                /\ UNCHANGED <<txn, outbox>>
  /\ UNCHANGED <<db, nextId, notifyApiKey, reminder>>

\* else { ... if (licenceApplicant?.emailAddress) { send to it } }
ReturnsApplicant(c) ==
  LET r == call[c] IN
  /\ r.ctl = "returns.ts" /\ r.pc = "applicant"
  /\ IF r.newRow # 0 /\ r.licenceApplicant.found /\ r.licenceApplicant.emailAddress # NoAddr
       THEN Dispatch(c, Step(r), ReturnTemplate, r.licenceApplicant.emailAddress, r.emailDetails)
       ELSE /\ call' = [call EXCEPT ![c] = Step(r)]
            /\ UNCHANGED <<txn, outbox>>
  /\ UNCHANGED <<db, nextId, notifyApiKey, reminder>>

\* ------------------------------------------ the text of the amendment e-mail

\* array.join(separator)
RECURSIVE Join(_, _)
Join(parts, separator) ==
  IF parts = <<>> THEN ""
  ELSE IF Len(parts) = 1 THEN parts[1]
  ELSE parts[1] \o separator \o Join(Tail(parts), separator)

\* The elements of a set of rows as an array, in the order of their keys.
RECURSIVE RowsById(_)
RowsById(rows) ==
  IF rows = {} THEN <<>>
  ELSE LET first == CHOOSE x \in rows : \A y \in rows : x.id <= y.id
       IN <<first>> \o RowsById(rows \ {first})

\* if (species.removeNests): a column that is absent or false is falsy.
Flag(species, column) == column \in DOMAIN species /\ species[column] = TRUE

\* String(species.quantityNestsToRemove)
Quantity(species, column) ==
  IF column \in DOMAIN species THEN ToString(species[column]) ELSE "undefined"

\* One line of addActivities, pushed when the flag is set.
ActivityLine(species, flag, text) == IF Flag(species, flag) THEN <<text>> ELSE <<>>

\* A faulty variant, for comparison: the nests line quotes the number of
\* nests whose eggs are destroyed.
addActivitiesWrongQuantity(species, speciesType) ==
  Join(
    ActivityLine(species, "removeNests",
      speciesType \o ": To take and destroy " \o Quantity(species, "quantityNestsWhereEggsDestroyed")
        \o " nests and any eggs they contain by hand.")
    \o ActivityLine(species, "eggDestruction",
      speciesType \o ": To take and destroy eggs from "
        \o Quantity(species, "quantityNestsWhereEggsDestroyed")
        \o " nests by oiling, pricking or replacing with dummy eggs."),
    "\n")

\* addActivities(species, speciesType): the lines of the activities an
\* activity row permits, joined by newlines.
addActivities(species, speciesType) ==
  Join(
    ActivityLine(species, "removeNests",
      speciesType \o ": To take and destroy " \o Quantity(species, "quantityNestsToRemove")
        \o " nests and any eggs they contain by hand.")
    \o ActivityLine(species, "eggDestruction",
      speciesType \o ": To take and destroy eggs from "
        \o Quantity(species, "quantityNestsWhereEggsDestroyed")
        \o " nests by oiling, pricking or replacing with dummy eggs.")
    \o ActivityLine(species, "chicksToRescueCentre",
      speciesType \o ": To take " \o Quantity(species, "quantityChicksToRescue")
        \o " chicks to a wildlife rescue centre by hand, net or trap.")
    \o ActivityLine(species, "chicksRelocateNearby",
      speciesType \o ": To take " \o Quantity(species, "quantityChicksToRelocate")
        \o " chicks and relocate nearby by hand, net or trap.")
    \o ActivityLine(species, "killChicks",
      speciesType \o ": To kill up to " \o Quantity(species, "quantityChicksToKill")
        \o " chicks by shooting or by hand, net or trap.")
    \o ActivityLine(species, "killAdults",
      speciesType \o ": To kill up to " \o Quantity(species, "quantityAdultsToKill")
        \o " adults by shooting, falconry or by hand, net or trap."),
    "\n")

\* The species names createPermittedActivitiesList hands addActivities.
SpeciesNames ==
  <<"Herring gull", "Black-headed gull", "Common gull", "Great black-backed gull",
    "Lesser black-backed gull">>

\* The sentence createPermittedActivitiesList pushes first; it ends in a newline.
PermittedHeader ==
  "Numbers permitted for amended activities are the total for the site, not additional to those already permitted.\n"

\* The activity row createPermittedActivitiesList reads for a slot: the
\* property of the name it reads, undefined when findOne loaded the row under
\* another name.  (addActivities of undefined throws: see ComposeThrows.)
ReadActivity(d, s) ==
  IF ReadAlias[s] \in DOMAIN d.loaded THEN d.loaded[ReadAlias[s]] ELSE NoneLoaded

\* The entries createPermittedActivitiesList pushes for the slots from s on.
RECURSIVE PermittedFrom(_, _)
PermittedFrom(d, s) ==
  IF s > 5 THEN <<>>
  ELSE (IF d.ids[s] # 0 THEN <<addActivities(ReadActivity(d, s), SpeciesNames[s])>> ELSE <<>>)
       \o PermittedFrom(d, s + 1)

\* A faulty variant, for comparison: the herring gull entry is pushed whether
\* or not the aggregate has a herring gull key.
createPermittedActivitiesListUnchecked(d) ==
  Join(<<PermittedHeader, addActivities(ReadActivity(d, 1), SpeciesNames[1])>>
       \o PermittedFrom(d, 2), "\n")

\* createPermittedActivitiesList(amendmentDetails.ASpecies)
createPermittedActivitiesList(d) == Join(<<PermittedHeader>> \o PermittedFrom(d, 1), "\n")

\* The lines createConservationStatus pushes, by slot.
ConservationLines ==
  <<"* Herring gull - Red in UK (Amber in Europe and least concern globally)",
    "* Black-headed gull - Amber in UK (Least concern in Europe and globally)",
    "* Common gull - Amber in UK (Least concern in Europe and globally)",
    "* Great black-backed gull - Amber in UK (Least concern in Europe and globally)",
    "* Lesser black-backed gull - Amber in UK (Least concern in Europe and globally)">>

RECURSIVE ConservationFrom(_, _)
ConservationFrom(d, s) ==
  IF s > 5 THEN <<>>
  ELSE (IF d.ids[s] # 0 THEN <<ConservationLines[s]>> ELSE <<>>) \o ConservationFrom(d, s + 1)

\* createConservationStatus(amendmentDetails.ASpecies)
createConservationStatus(d) == Join(ConservationFrom(d, 1), "\n")

\* The text of a catalogue row, loaded with the join row that links it:
\* condition.AmendCondition.condition, advisory.AmendAdvisory.advisory.
ConditionText(id) == "condition " \o ToString(id)
AdvisoryText(id) == "advisory " \o ToString(id)

\* The id sets the four lists filter by.
OverlappingGeneralConditionIds == {12, 13, 19}
optionalAdvisoryIds == {1, 2, 7}
optionalGeneralConditionIds == {12, 13}
optionalWhatMustBeDoneConditionIds == {4, 6, 7}
optionalReportingConditionIds == {19, 20, 21, 22, 23, 24, 25}

\* conditions.filter(...) and the push of each condition's text: the
\* conditionList array of the three condition functions.  (The join rows come
\* from findOne in the order of the database, taken here as that of the keys.)
ConditionList(conditions, allowed) ==
  LET kept == SelectSeq(RowsById(conditions), LAMBDA x : x.ConditionId \in allowed)
  IN [i \in 1..Len(kept) |-> ConditionText(kept[i].ConditionId)]

AdvisoryList(advisories, allowed) ==
  LET kept == SelectSeq(RowsById(advisories), LAMBDA x : x.AdvisoryId \in allowed)
  IN [i \in 1..Len(kept) |-> AdvisoryText(kept[i].AdvisoryId)]

createAdvisoriesList(advisories) == Join(AdvisoryList(advisories, optionalAdvisoryIds), "\n\n")

createGeneralConditionsList(conditions) ==
  Join(ConditionList(conditions, optionalGeneralConditionIds), "\n\n")

createWhatYouMustDoConditionsList(conditions) ==
  Join(ConditionList(conditions, optionalWhatMustBeDoneConditionIds), "\n\n")

createReportingConditionsList(conditions) ==
  Join(ConditionList(conditions, optionalReportingConditionIds), "\n\n")

\* 'yes' when the text is not empty.
YesNo(text) == IF text # "" THEN "yes" ELSE "no"

\* setAmendEmailPersonalisationFields(application, amendmentDetails): the
\* fields made from the amendment.  (licenceNumber, the addresses, the dates
\* and the holder's name are made from the application; a missing one throws,
\* see ComposeThrows.)  hasConditions tests an array, which is always truthy.
setAmendEmailPersonalisationFields(application, d) ==
  [complete |-> TRUE,
   permittedActivities |-> createPermittedActivitiesList(d),
   advisoryNotes |-> createAdvisoriesList(d.AmendAdvisories),
   whatYouMustDoConditionsList |-> createWhatYouMustDoConditionsList(d.AmendConditions),
   generalConditionsList |-> createGeneralConditionsList(d.AmendConditions),
   reportingConditionsList |-> createReportingConditionsList(d.AmendConditions),
   conservationStatus |-> createConservationStatus(d),
   hasConditions |-> "yes",
   hasWhatYouMustDo |-> YesNo(createWhatYouMustDoConditionsList(d.AmendConditions)),
   hasRecording |-> YesNo(createReportingConditionsList(d.AmendConditions)),
   hasGeneral |-> YesNo(createGeneralConditionsList(d.AmendConditions)),
   hasAdvisoryNotes |-> YesNo(createAdvisoriesList(d.AmendAdvisories))]

\* const emailDetails = setAmendEmailPersonalisationFields(application, amendmentDetails),
\* with the text of every field.
ComposeEmail(c) ==
  LET r == call[c] IN
  /\ r.ctl = "part_002" /\ r.pc = "compose"
  /\ IF ComposeThrows(r.application, r.amendmentDetails)
       THEN Throw(c, r, "compose")
       ELSE /\ call' = [call EXCEPT ![c] =
                 Step([r EXCEPT !.emailDetails =
                         setAmendEmailPersonalisationFields(r.application, r.amendmentDetails)])]
            /\ UNCHANGED txn
  /\ UNCHANGED <<db, nextId, outbox, notifyApiKey, reminder>>

\* ------------------------------------------------------------ specification

\* ------------------------------------- the text of the return notification

\* createDisplayDate(new Date(date)): date.toLocaleDateString('en-GB'), the
\* day and the month in two digits: dd/mm/yyyy.
createDisplayDate(date) ==
  LET TwoDigits(n) == IF n < 10 THEN "0" \o ToString(n) ELSE ToString(n)
  IN TwoDigits(date.day) \o "/" \o TwoDigits(date.month) \o "/" \o ToString(date.year)

\* A faulty variant, for comparison: the nests line is pushed whenever the
\* flag is set.
returnActivitiesUnchecked(activities, speciesType) ==
  LET On(column) == createDisplayDate(activities[column])
  IN (IF Flag(activities, "removeNests")
        THEN <<"* " \o speciesType \o " - " \o Quantity(activities, "quantityNestsRemoved")
                 \o " nests removed on " \o On("dateNestsEggsRemoved")>>
        ELSE <<>>)
     \o ActivityLine(activities, "eggDestruction", speciesType \o " - eggs")
     \o ActivityLine(activities, "chicksToRescueCentre", speciesType \o " - rescue")
     \o ActivityLine(activities, "chicksRelocatedNearby", speciesType \o " - relocated")
     \o ActivityLine(activities, "killChicks", speciesType \o " - chicks")
     \o ActivityLine(activities, "killAdults", speciesType \o " - adults")

\* The array addReturnActivities fills: a line for the nests removed when the
\* flag is set and the number of nests is truthy (with the eggs when their
\* number is truthy too, and with a leading "* " when it is not), and a line
\* for each other flag that is set.
returnActivities(activities, speciesType) ==
  LET Truthy(column) == column \in DOMAIN activities /\ activities[column] # 0
      On(column) == createDisplayDate(activities[column])
  IN (IF Flag(activities, "removeNests") /\ Truthy("quantityNestsRemoved")
           /\ Truthy("quantityEggsRemoved")
        THEN <<speciesType \o " - " \o Quantity(activities, "quantityNestsRemoved")
                 \o " nests removed and " \o Quantity(activities, "quantityEggsRemoved")
                 \o " eggs removed on " \o On("dateNestsEggsRemoved")>>
        ELSE IF Flag(activities, "removeNests") /\ Truthy("quantityNestsRemoved")
          THEN <<"* " \o speciesType \o " - " \o Quantity(activities, "quantityNestsRemoved")
                   \o " nests removed on " \o On("dateNestsEggsRemoved")>>
          ELSE <<>>)
     \o (IF Flag(activities, "eggDestruction")
           THEN <<speciesType \o " - " \o Quantity(activities, "quantityEggsDestroyed")
                    \o " eggs oiled pricked or replaced with dummy eggs from "
                    \o Quantity(activities, "quantityNestsAffected")
                    \o " nests on " \o On("dateNestsEggsDestroyed")>>
           ELSE <<>>)
     \o (IF Flag(activities, "chicksToRescueCentre")
           THEN <<speciesType \o " - " \o Quantity(activities, "quantityChicksToRescue")
                    \o " chicks taken to " \o activities.rescueCentre
                    \o " on " \o On("dateChicksToRescue")>>
           ELSE <<>>)
     \o (IF Flag(activities, "chicksRelocatedNearby")
           THEN <<speciesType \o " - " \o Quantity(activities, "quantityChicksRelocated")
                    \o " chicks relocated nearby on " \o On("dateChicksRelocated")>>
           ELSE <<>>)
     \o (IF Flag(activities, "killChicks")
           THEN <<speciesType \o " - " \o Quantity(activities, "quantityChicksKilled")
                    \o " chicks killed on " \o On("dateChicksKilled")>>
           ELSE <<>>)
     \o (IF Flag(activities, "killAdults")
           THEN <<speciesType \o " - " \o Quantity(activities, "quantityAdultsKilled")
                    \o " adults killed on " \o On("dateAdultsKilled")>>
           ELSE <<>>)

\* addReturnActivities(activities, speciesType): returnActivities.join('\n')
addReturnActivities(activities, speciesType) ==
  Join(returnActivities(activities, speciesType), "\n")

\* The keys of the Map returnDetails, by slot.
ReturnKeys ==
  <<"Herring Gull", "Black-Headed Gull", "Common Gull", "Great Black-Backed Gull",
    "Lesser Black-Backed Gull">>

\* The species names createReturnDetails hands addReturnActivities, by slot.
ReturnSpeciesNames ==
  <<"Herring gull", "Black-Headed Gull", "Common Gull", "Great Black-Backed Gull",
    "Lesser Black-Backed Gull">>

\* createReturnDetails(returnDetails): the five if (returnDetails.has(...))
\* blocks in order, and returnDetailsResults.join('\n').
createReturnDetails(returnDetails) ==
  LET Block(s) ==
        IF ReturnKeys[s] \in DOMAIN returnDetails
          THEN <<addReturnActivities(returnDetails[ReturnKeys[s]], ReturnSpeciesNames[s])>>
          ELSE <<>>
  IN Join(Block(1) \o Block(2) \o Block(3) \o Block(4) \o Block(5), "\n")

\* setReturnNotificationDetails(licenceId, returnDate, siteAddress, returnDetails)
setReturnNotificationDetails(licenceId, returnDate, siteAddress, returnDetails) ==
  [id |-> licenceId, returnDate |-> createDisplayDate(returnDate),
   siteAddress |-> siteAddress, returnDetails |-> createReturnDetails(returnDetails)]

\* if (newReturn) { const emailDetails = setReturnNotificationDetails(...) },
\* with the text: createSummaryAddress(siteAddress) throws a TypeError on no
\* site address.
ReturnsComposeText(c) ==
  LET r == call[c] IN
  /\ r.ctl = "returns.ts" /\ r.pc = "compose"
  /\ IF r.newRow = 0
       THEN /\ call' = [call EXCEPT ![c] = Step(r)]
            /\ UNCHANGED txn
       ELSE IF ~r.siteAddress
         THEN Throw(c, r, "compose")
         ELSE /\ call' = [call EXCEPT ![c] =
                   Step([r EXCEPT !.emailDetails =
                           setReturnNotificationDetails(
                             r.cleanedReturn.LicenceId, [year |-> 2022, month |-> 5, day |-> 31],
                             "1 Site Road, Town, County, AB1 2CD", r.returnDetails)])]
              /\ UNCHANGED txn
  /\ UNCHANGED <<db, nextId, outbox, notifyApiKey, reminder>>

Next ==
  \E c \in Calls :
    \/ AmendBegin(c)
    \/ AmendActivity(c)
    \/ AmendSpecies(c)
    \/ AmendAmendment(c)
    \/ AmendIssueConditions(c)
    \/ AmendSettleCondition(c)
    \/ AmendConditionsResolved(c)
    \/ AmendIssueAdvisories(c)
    \/ AmendSettleAdvisory(c)
    \/ AmendAdvisoriesResolved(c)
    \/ AmendNote(c)
    \/ Commit(c)
    \/ AmendFindApplication(c)
    \/ AmendFindAmendment(c)
    \/ AmendCompose(c)
    \/ AmendHolder(c)
    \/ AmendApplicant(c)
    \/ AmendInternal(c)
    \/ Return(c)
    \/ ReturnsBegin(c)
    \/ ReturnsActivity(c)
    \/ ReturnsSpecies(c)
    \/ ReturnsReturns(c)
    \/ ReturnsFindApplication(c)
    \/ ReturnsSiteAddress(c)
    \/ ReturnsLicenceHolder(c)
    \/ ReturnsLicenceApplicant(c)
    \/ ReturnsCompose(c)
    \/ ReturnsHolder(c)
    \/ ReturnsApplicant(c)

Spec == Init /\ [][Next]_vars

\* ------------------------------------- the e-mail of a committed amendment

\* The activity payloads create is handed in this specification: the nests of
\* the scenario alone, and every activity.
NestsOnly == [removeNests |-> TRUE, quantityNestsToRemove |-> 3]

EveryActivity ==
  [removeNests |-> TRUE, quantityNestsToRemove |-> 1,
   eggDestruction |-> TRUE, quantityNestsWhereEggsDestroyed |-> 2,
   chicksToRescueCentre |-> TRUE, quantityChicksToRescue |-> 3,
   chicksRelocateNearby |-> TRUE, quantityChicksToRelocate |-> 4,
   killChicks |-> TRUE, quantityChicksToKill |-> 5,
   killAdults |-> TRUE, quantityAdultsToKill |-> 6]

ActivityPayloads(s) == IF s = 1 THEN {NestsOnly, EveryActivity} ELSE {EveryActivity}

\* The catalogue ids the lists of this specification link: one of each
\* allow-list and one of none.
LinkedConditionIds == {4, 12, 19, 30}
LinkedAdvisoryIds == {1, 3}

\* How many elements of a set of numbers are at most n.
Rank(S, n) == Cardinality({m \in S : m <= n})

\* The rows create commits for an amendment of an empty database: the
\* activity rows of the payloads given, in the order of the slots, the
\* aggregate, the amendment, a join row for every id linked, and the note.
CommittedAmendment(incoming, given, payload, conditionIds, advisoryIds) ==
  [t \in Tables |->
     CASE t = "AActivity" -> {[id |-> Rank(given, s), slot |-> s] @@ payload[s] : s \in given}
       [] t = "ASpecies" ->
            {[id |-> 1, ids |-> [s \in Slots |-> IF s \in given THEN Rank(given, s) ELSE 0]]}
       [] t = "Amendment" -> {[id |-> 1] @@ AmendmentValues([incoming EXCEPT !.SpeciesId = 1])}
       [] t = "AmendCondition" ->
            {[id |-> Rank(conditionIds, v), AmendmentId |-> 1, ConditionId |-> v] : v \in conditionIds}
       [] t = "AmendAdvisory" ->
            {[id |-> Rank(advisoryIds, v), AmendmentId |-> 1, AdvisoryId |-> v] : v \in advisoryIds}
       [] t = "Note" -> {[id |-> 1] @@ NoteValues(incoming)}
       [] OTHER -> {}]

\* The call of create that committed those rows, at the statement after the
\* transaction.
CommittedCall(incoming, given) ==
  [IdleCall EXCEPT !.ctl = "part_002", !.pc = "findApplication",
                   !.incoming = [incoming EXCEPT !.SpeciesId = 1],
                   !.payloads = given,
                   !.speciesIds = [s \in Slots |-> IF s \in given THEN Rank(given, s) ELSE 0],
                   !.newRow = 1, !.amendmentId = 1, !.slot = 6]

\* An amendment create has committed; its payloads carry their activities.
ComposeInit ==
  \E incoming \in IncomingAmendments, given \in SUBSET Slots,
     conditionIds \in SUBSET LinkedConditionIds, advisoryIds \in SUBSET LinkedAdvisoryIds :
    \E payload \in [given -> {NestsOnly, EveryActivity}] :
      /\ \A s \in given : payload[s] \in ActivityPayloads(s)
      /\ incoming.licenceHolderEmailAddress = NoAddr
      /\ incoming.licenceApplicantEmailAddress = NoAddr
      /\ db = CommittedAmendment(incoming, given, payload, conditionIds, advisoryIds)
      /\ nextId = IdsAfter(db)
      /\ txn = [c \in Calls |-> [state |-> "commit", rows |-> NoRows]]
      /\ call = [c \in Calls |-> CommittedCall(incoming, given)]
      /\ outbox = <<>>
      /\ notifyApiKey = FALSE
      /\ reminder = NoReminder

\* The reads after the commit and the composition of the e-mail.
ComposeNext ==
  \E c \in Calls :
    \/ AmendFindApplication(c)
    \/ AmendFindAmendment(c)
    \/ ComposeEmail(c)

ComposeSpec == ComposeInit /\ [][ComposeNext]_vars

\* ------------------------------------------ the text of a committed return

\* The activity payloads return create is handed in this specification:
\* nests and eggs removed, nests removed and no egg, the nests flag with no
\* nest removed, every activity, and no activity.
ReturnActivityPayloads ==
  {[removeNests |-> TRUE, quantityNestsRemoved |-> 3, quantityEggsRemoved |-> 5,
    dateNestsEggsRemoved |-> [year |-> 2022, month |-> 5, day |-> 3]],
   [removeNests |-> TRUE, quantityNestsRemoved |-> 3, quantityEggsRemoved |-> 0,
    dateNestsEggsRemoved |-> [year |-> 2022, month |-> 5, day |-> 3]],
   [removeNests |-> TRUE, quantityNestsRemoved |-> 0, quantityEggsRemoved |-> 0,
    dateNestsEggsRemoved |-> [year |-> 2022, month |-> 5, day |-> 3]],
   [removeNests |-> TRUE, quantityNestsRemoved |-> 1, quantityEggsRemoved |-> 2,
    dateNestsEggsRemoved |-> [year |-> 2022, month |-> 5, day |-> 3],
    eggDestruction |-> TRUE, quantityEggsDestroyed |-> 4, quantityNestsAffected |-> 2,
    dateNestsEggsDestroyed |-> [year |-> 2022, month |-> 5, day |-> 14],
    chicksToRescueCentre |-> TRUE, quantityChicksToRescue |-> 3, rescueCentre |-> "the rescue centre",
    dateChicksToRescue |-> [year |-> 2022, month |-> 6, day |-> 1],
    chicksRelocatedNearby |-> TRUE, quantityChicksRelocated |-> 4,
    dateChicksRelocated |-> [year |-> 2022, month |-> 6, day |-> 2],
    killChicks |-> TRUE, quantityChicksKilled |-> 5,
    dateChicksKilled |-> [year |-> 2022, month |-> 11, day |-> 20],
    killAdults |-> TRUE, quantityAdultsKilled |-> 6,
    dateAdultsKilled |-> [year |-> 2022, month |-> 12, day |-> 9]],
   [removeNests |-> FALSE]}

\* The rows create commits for a return of an empty database: the activity
\* rows of the payloads given, in the order of the slots, the aggregate and
\* the return.
CommittedReturn(cleanedReturn, given) ==
  [t \in Tables |->
     CASE t = "ReturnActivity" -> {[id |-> Rank(given, s), slot |-> s] : s \in given}
       [] t = "ReturnSpecies" ->
            {[id |-> 1, ids |-> [s \in Slots |-> IF s \in given THEN Rank(given, s) ELSE 0]]}
       [] t = "Returns" -> {[id |-> 1] @@ [cleanedReturn EXCEPT !.SpeciesId = 1]}
       [] OTHER -> {}]

\* The call of create that committed those rows, the application, the site
\* address and two contacts read, the Map returnDetails filled from the
\* payloads, at the statement that composes the e-mail.
CommittedReturnCall(cleanedReturn, given, payload) ==
  [IdleCall EXCEPT !.ctl = "returns.ts", !.pc = "compose",
                   !.cleanedReturn = [cleanedReturn EXCEPT !.SpeciesId = 1],
                   !.payloads = given,
                   !.speciesIds = [s \in Slots |-> IF s \in given THEN Rank(given, s) ELSE 0],
                   !.newRow = 1, !.slot = 6,
                   !.applicationDetails =
                      [found |-> TRUE, SiteAddressId |-> 1, LicenceHolderId |-> 1,
                       LicenceApplicantId |-> 2],
                   !.siteAddress = TRUE,
                   !.licenceHolder = [found |-> TRUE, id |-> 1, emailAddress |-> "a@example.org"],
                   !.licenceApplicant = [found |-> TRUE, id |-> 2, emailAddress |-> "b@example.org"],
                   !.returnDetails =
                      [k \in {ReturnKeys[s] : s \in given} |->
                         payload[CHOOSE s \in given : ReturnKeys[s] = k]]]

\* A return create has committed; its payloads carry their activities.
ReturnTextInit ==
  \E cleanedReturn \in CleanedReturns, given \in SUBSET Slots :
    \E payload \in [given -> ReturnActivityPayloads] :
      /\ db = CommittedReturn(cleanedReturn, given)
      /\ nextId = IdsAfter(db)
      /\ txn = [c \in Calls |-> [state |-> "commit", rows |-> NoRows]]
      /\ call = [c \in Calls |-> CommittedReturnCall(cleanedReturn, given, payload)]
      /\ outbox = <<>>
      /\ notifyApiKey \in BOOLEAN
      /\ reminder = NoReminder

\* The composition of the e-mail, its dispatch and the return of create.
ReturnTextNext ==
  \E c \in Calls :
    \/ ReturnsComposeText(c)
    \/ ReturnsHolder(c)
    \/ ReturnsApplicant(c)
    \/ Return(c)

ReturnTextSpec == ReturnTextInit /\ [][ReturnTextNext]_vars

\* ------------------------------------------------------ the reminder job

\* cron.schedule('0 3 * * *', ...): minute 0 of hour 3 of every day.  The
\* model's clock goes by the hour.
Schedule == [minute |-> 0, hour |-> 3]

\* The options of the request the job makes.  hostname is config.pathPrefix.
ReminderOptions ==
  [hostname |-> "/gulls-health-and-safety-api", port |-> 443, path |-> "/reminder",
   method |-> "PATCH"]

\* https.request(options, callback): the ClientRequest it returns.  The
\* request is written to the server once end() is called on it; the agent
\* starts connecting a socket for it at once.
ClientRequest(options) == [options |-> options, ended |-> FALSE, socket |-> "connecting"]

\* The application state, which the job and its requests leave alone.
appVars == <<db, nextId, txn, call, outbox, notifyApiKey>>

\* An hour passes.  At hour 3 the clock waits for the job to have fired.
Tick ==
  /\ reminder.alive
  /\ ~(reminder.hour = Schedule.hour /\ reminder.fired = reminder.day)
  /\ reminder.hour < 23 \/ reminder.day + 1 < MaxDays
  /\ reminder' = [reminder EXCEPT !.hour = (@ + 1) % 24,
                                  !.day = IF reminder.hour = 23 THEN @ + 1 ELSE @]
  /\ UNCHANGED appVars

\* The scheduled callback runs: it logs a line, builds the options and calls
\* https.request.  It keeps no reference to the request and never calls
\* end() on it.
CronFire ==
  /\ reminder.alive
  /\ reminder.hour = Schedule.hour /\ reminder.fired = reminder.day
  /\ reminder' = [reminder EXCEPT
       !.fired = @ + 1,
       !.log = Append(@, "Call code at 3:00am every day from here..."),
       !.requests = Append(@, ClientRequest(ReminderOptions))]
  /\ UNCHANGED appVars

\* The socket of a request connects.  Nothing is written on it: the request
\* was not ended.
SocketConnect ==
  /\ reminder.alive
  /\ \E i \in 1..Len(reminder.requests) :
       /\ reminder.requests[i].socket = "connecting"
       /\ reminder' = [reminder EXCEPT !.requests[i].socket = "open"]
  /\ UNCHANGED appVars

\* The socket of a request fails (the lookup of the host name finds nothing,
\* the connection is refused or reset).  The request emits 'error'; it has no
\* listener for it, so the event is thrown and the process ends.
SocketError ==
  /\ reminder.alive
  /\ \E i \in 1..Len(reminder.requests) :
       /\ reminder.requests[i].socket \in {"connecting", "open"}
       /\ reminder' = [reminder EXCEPT !.requests[i].socket = "error", !.alive = FALSE]
  /\ UNCHANGED appVars

CronNext == Tick \/ CronFire \/ SocketConnect \/ SocketError

CronSpec == Init /\ [][CronNext]_vars

\* ------------------------------------------------- a sequence of requests

\* The request bodies of the amendment route in a sequence of requests.
SeqAmendments ==
  {[SpeciesId |-> 0, LicenceId |-> 7, amendReason |-> "reason", amendedBy |-> "officer",
    licenceHolderEmailAddress |-> NoAddr, licenceApplicantEmailAddress |-> NoAddr],
   [SpeciesId |-> 0, LicenceId |-> 8, amendReason |-> "another reason", amendedBy |-> "manager",
    licenceHolderEmailAddress |-> NoAddr, licenceApplicantEmailAddress |-> NoAddr]}

\* The inputs of a call in a sequence of requests: the herring gull payload
\* at most, each list of one entry (undefined until it is read), the
\* application found with all its associations or not at all, and contacts
\* without an e-mail address.
SeqInputs(r) ==
  /\ r.payloads \subseteq {1}
  /\ r.optionalConditions \in {Undefined, [defined |-> TRUE, list |-> <<[id |-> 4]>>]}
  /\ r.optionalAdvisories \in {Undefined, [defined |-> TRUE, list |-> <<[id |-> 1]>>]}
  /\ r.application \in {"null", "full"}
  /\ r.applicationDetails \in
       {NoApplication,
        [found |-> TRUE, SiteAddressId |-> 1, LicenceHolderId |-> 1, LicenceApplicantId |-> 1]}
  /\ r.licenceHolder.emailAddress = NoAddr
  /\ r.licenceApplicant.emailAddress = NoAddr

\* The aliases under which ReturnsController.findOne loads the five activity
\* rows of ReturnSpecies.
ReturnIncludeAlias ==
  <<"ReturnHerringGull", "ReturnBlackHeadedGull", "ReturnCommonGull",
    "ReturnGreatBlackBackedGull", "ReturnLesserBlackBackedGull">>

\* ReturnsController.findOne(id): Returns.findByPk(id, {include: ...}): the
\* return with its species aggregate and the activity rows of the aggregate,
\* or nothing.
ReturnsFindOne(id) ==
  {[id |-> x.id, SpeciesId |-> x.SpeciesId, LicenceId |-> x.LicenceId,
    confirmedReturn |-> x.confirmedReturn,
    ReturnSpecies |->
      {[id |-> sp.id, ids |-> sp.ids,
        loaded |-> LoadActivities(sp.ids, ReturnIncludeAlias, db["ReturnActivity"])] :
         sp \in {y \in db["ReturnSpecies"] : y.id = x.SpeciesId}}] :
     x \in {y \in db["Returns"] : y.id = id}}

\* The call record of a find that has resolved with rows.
Found(r, ctl, rows) == [r EXCEPT !.ctl = ctl, !.pc = "found", !.rows = rows]

\* The keys a find is asked for: those of the committed rows, and one of no row.
KeysAsked(table) == 1..(Cardinality(db[table]) + 1)

\* AmendmentController.findOne(id) is called and resolves.
AmendFindOne(c) ==
  /\ call[c].pc = "idle"
  /\ \E id \in KeysAsked("Amendment") :
       call' = [call EXCEPT ![c] =
         Found(call[c], "part_002", {d \in {AmendmentFindOne(id)} : d.found})]
  /\ UNCHANGED <<db, nextId, txn, outbox, notifyApiKey, reminder>>

\* AmendmentController.findAll(): Amendment.findAll().
AmendFindAll(c) ==
  /\ call[c].pc = "idle"
  /\ call' = [call EXCEPT ![c] = Found(call[c], "part_002", db["Amendment"])]
  /\ UNCHANGED <<db, nextId, txn, outbox, notifyApiKey, reminder>>

\* ReturnsController.findOne(id) is called and resolves.
ReturnsFindOneCall(c) ==
  /\ call[c].pc = "idle"
  /\ \E id \in KeysAsked("Returns") :
       call' = [call EXCEPT ![c] = Found(call[c], "returns.ts", ReturnsFindOne(id))]
  /\ UNCHANGED <<db, nextId, txn, outbox, notifyApiKey, reminder>>

\* ReturnsController.findAll(): Returns.findAll().
ReturnsFindAll(c) ==
  /\ call[c].pc = "idle"
  /\ call' = [call EXCEPT ![c] = Found(call[c], "returns.ts", db["Returns"])]
  /\ UNCHANGED <<db, nextId, txn, outbox, notifyApiKey, reminder>>

\* The call is over, with none of its inserts still in flight: the route has
\* answered, and the next request is taken.
NextRequest(c) ==
  /\ call[c].pc \in {"returned", "threw", "found"}
  /\ call[c].inflight = {}
  /\ call[c].served + 1 < MaxRequests
  /\ call' = [call EXCEPT ![c] = [IdleCall EXCEPT !.served = call[c].served + 1]]
  /\ txn' = [txn EXCEPT ![c] = [state |-> "none", rows |-> NoRows]]
  /\ UNCHANGED <<db, nextId, outbox, notifyApiKey, reminder>>

SeqInit == Init /\ notifyApiKey = FALSE

\* The requests of a sequence are given both lists: the step that reads a
\* list issues its inserts.
SeqNext ==
  \E c \in Calls :
    \/ AmendBeginWith(c, {"part_002"}, SeqAmendments)
    \/ AmendActivity(c) /\ SeqInputs(call'[c])
    \/ AmendSpecies(c)
    \/ AmendAmendment(c)
    \/ AmendIssueConditions(c) /\ SeqInputs(call'[c]) /\ call'[c].issued
    \/ AmendSettleCondition(c)
    \/ AmendConditionsResolved(c)
    \/ AmendIssueAdvisories(c) /\ SeqInputs(call'[c]) /\ call'[c].issued
    \/ AmendSettleAdvisory(c)
    \/ AmendAdvisoriesResolved(c)
    \/ AmendNote(c)
    \/ Commit(c)
    \/ AmendFindApplication(c) /\ SeqInputs(call'[c])
    \/ AmendFindAmendment(c)
    \/ AmendCompose(c)
    \/ AmendHolder(c)
    \/ AmendApplicant(c)
    \/ AmendInternal(c)
    \/ Return(c)
    \/ ReturnsBegin(c)
    \/ ReturnsActivity(c) /\ SeqInputs(call'[c])
    \/ ReturnsSpecies(c)
    \/ ReturnsReturns(c)
    \/ ReturnsFindApplication(c) /\ SeqInputs(call'[c])
    \/ ReturnsSiteAddress(c)
    \/ ReturnsLicenceHolder(c) /\ SeqInputs(call'[c])
    \/ ReturnsLicenceApplicant(c) /\ SeqInputs(call'[c])
    \/ ReturnsCompose(c)
    \/ ReturnsHolder(c)
    \/ ReturnsApplicant(c)
    \/ AmendFindOne(c)
    \/ AmendFindAll(c)
    \/ ReturnsFindOneCall(c)
    \/ ReturnsFindAll(c)
    \/ NextRequest(c)

SeqSpec == SeqInit /\ [][SeqNext]_vars

\* ------------------------------------ conditions shaped as the interface

\* create of part_002 handed optionalConditions of ConditionInterface entries.
JoinInit == Init /\ notifyApiKey = FALSE

JoinNext ==
  \E c \in Calls :
    \/ AmendBeginWith(c, {"part_002"}, SeqAmendments)
    \/ AmendActivity(c)
    \/ AmendSpecies(c)
    \/ AmendAmendment(c)
    \/ AmendIssueConditionsFrom(c, OptionalLists(InterfaceConditionEntries))
    \/ AmendSettleCondition(c)
    \/ AmendConditionsResolved(c)
    \/ AmendIssueAdvisories(c)
    \/ AmendSettleAdvisory(c)
    \/ AmendAdvisoriesResolved(c)
    \/ AmendNote(c)
    \/ Commit(c)
    \/ AmendFindApplication(c)
    \/ AmendFindAmendment(c)
    \/ AmendCompose(c)
    \/ AmendHolder(c)
    \/ AmendApplicant(c)
    \/ AmendInternal(c)
    \/ Return(c)

JoinSpec == JoinInit /\ [][JoinNext]_vars

\* ------------------------------------------------- two calls of create

\* Two requests served at once: each call of create has its own locals and
\* its own transaction, and every await is a point where the other runs.
ConcurrentCalls == {"call1", "call2"}

\* The requests of this specification: activity payloads for the first two
\* species only, one optional condition or none, one advisory or none.
ConcurrentInputs(r) ==
  /\ r.payloads \subseteq {1, 2}
  /\ r.optionalConditions \in {Undefined, [defined |-> TRUE, list |-> <<[id |-> 4]>>]}
  /\ r.optionalAdvisories \in {Undefined, [defined |-> TRUE, list |-> <<[id |-> 1]>>]}

\* No row, no call of create entered, no transaction.
ConcurrentInit ==
  /\ db = NoRows
  /\ nextId = IdsAfter(db)
  /\ txn = [c \in ConcurrentCalls |-> [state |-> "none", rows |-> NoRows]]
  /\ call = [c \in ConcurrentCalls |-> IdleCall]
  /\ outbox = <<>>
  /\ notifyApiKey = FALSE
  /\ reminder = NoReminder

\* The statements of the two creates inside their transactions, up to the
\* commit, of either call.
ConcurrentNext ==
  \E c \in ConcurrentCalls :
    \/ AmendBeginWith(c, {"part_002"}, {b \in SeqAmendments : b.LicenceId = 7})
    \/ AmendActivity(c) /\ ConcurrentInputs(call'[c])
    \/ AmendSpecies(c)
    \/ AmendAmendment(c)
    \/ AmendIssueConditions(c) /\ ConcurrentInputs(call'[c])
    \/ AmendSettleCondition(c)
    \/ AmendConditionsResolved(c)
    \/ AmendIssueAdvisories(c) /\ ConcurrentInputs(call'[c])
    \/ AmendSettleAdvisory(c)
    \/ AmendAdvisoriesResolved(c)
    \/ AmendNote(c)
    \/ ReturnsBegin(c)
    \/ ReturnsActivity(c) /\ ConcurrentInputs(call'[c])
    \/ ReturnsSpecies(c)
    \/ ReturnsReturns(c)
    \/ Commit(c)

ConcurrentSpec == ConcurrentInit /\ [][ConcurrentNext]_vars

\* ------------------------------------------------------------------ claims

\* The rows call c inserted that are committed.
Persisted(c) == {x \in call[c].inserted : x[2] \in db[x[1]]}

\* How many rows call c inserted in a table.
InsertedIn(c, table) == Cardinality({x \in call[c].inserted : x[1] = table})

\* create has ended: it returned or it rejected.
Done(c) == call[c].pc \in {"returned", "threw"}

\* The awaits inside the callback of the transaction.
TxPcs ==
  {"activity", "aspecies", "amendment", "conditions", "advisories", "note", "species",
   "returns", "commit"}

\* Call c has left its transaction without a failed insert.
PastTransaction(c) ==
  /\ call[c].pc \notin TxPcs \cup {"idle"}
  /\ call[c].failedAt # "insert"

\* Call c inserted every row an amendment create is to insert.
AmendComplete(c) ==
  /\ InsertedIn(c, "AActivity") = Cardinality(call[c].payloads)
  /\ InsertedIn(c, "ASpecies") = 1
  /\ InsertedIn(c, "Amendment") = 1
  /\ InsertedIn(c, "AmendCondition") = Len(call[c].optionalConditions.list)
  /\ InsertedIn(c, "AmendAdvisory") = Len(call[c].optionalAdvisories.list)
  /\ InsertedIn(c, "Note") = 1

\* Call c inserted every row a return create is to insert.
ReturnComplete(c) ==
  /\ InsertedIn(c, "ReturnActivity") = Cardinality(call[c].payloads)
  /\ InsertedIn(c, "ReturnSpecies") = 1
  /\ InsertedIn(c, "Returns") = 1

\* The Notify calls call c issued, in order.
Sent(c) == SelectSeq(outbox, LAMBDA e : e.call = c)

\* C1: amendment create is all-or-nothing.  Whatever payloads and lists it is
\* given: once an insert has failed the transaction is rolled back and none
\* of the rows the call inserted is committed, now or later; no row is
\* committed before the commit; and a call that leaves its transaction
\* without a failed insert has committed every row it was to insert.
C1_AmendAllOrNothing ==
  \A c \in Calls :
    call[c].ctl \in AmendCtls =>
      /\ call[c].failedAt = "insert" => txn[c].state = "rollback" /\ Persisted(c) = {}
      /\ txn[c].state # "commit" => Persisted(c) = {}
      /\ PastTransaction(c) =>
           /\ txn[c].state = "commit"
           /\ Persisted(c) = call[c].inserted
           /\ AmendComplete(c)

\* An amendment create that inserted a condition row and then had an insert fail.
C1_Witness ==
  \E c \in Calls :
    /\ call[c].ctl \in AmendCtls
    /\ call[c].failedAt = "insert"
    /\ InsertedIn(c, "AmendCondition") > 0
    /\ InsertedIn(c, "AActivity") > 1

\* C2: return create is all-or-nothing.  Once an insert of ReturnActivity,
\* ReturnSpecies or Returns has failed none of the rows the call inserted is
\* committed; no row is committed before the commit; and a call that leaves
\* its transaction without a failed insert has committed all of them.
C2_ReturnAllOrNothing ==
  \A c \in Calls :
    call[c].ctl = "returns.ts" =>
      /\ call[c].failedAt = "insert" => txn[c].state = "rollback" /\ Persisted(c) = {}
      /\ txn[c].state # "commit" => Persisted(c) = {}
      /\ PastTransaction(c) =>
           /\ txn[c].state = "commit"
           /\ Persisted(c) = call[c].inserted
           /\ ReturnComplete(c)

\* A return create whose Returns insert failed after activities and the
\* species aggregate were inserted.
C2_Witness ==
  \E c \in Calls :
    /\ call[c].ctl = "returns.ts"
    /\ call[c].failedAt = "insert"
    /\ InsertedIn(c, "ReturnSpecies") = 1
    /\ InsertedIn(c, "ReturnActivity") > 1

\* C3: every call of create ends by returning the created aggregate or
\* undefined, and after a failed insert it returns undefined.
C3_ReturnsAggregateOrUndefined ==
  \A c \in Calls :
    Done(c) =>
      /\ call[c].pc = "returned"
      /\ call[c].result \in {0, call[c].newRow}
      /\ call[c].failedAt = "insert" => call[c].result = 0

\* C4: a failed Notify call leaves every row the call committed in place:
\* after a dispatch has failed all the rows the call was to insert are
\* committed, with the values they were inserted with.
C4_DispatchFailureKeepsRows ==
  \A c \in Calls :
    call[c].failedAt = "dispatch" =>
      /\ txn[c].state = "commit"
      /\ Persisted(c) = call[c].inserted
      /\ IF call[c].ctl = "returns.ts" THEN ReturnComplete(c) ELSE AmendComplete(c)

\* A create whose Notify call failed after it committed activity rows.
C4_Witness ==
  \E c \in Calls :
    /\ call[c].failedAt = "dispatch"
    /\ call[c].pc = "threw"
    /\ call[c].payloads # {}
    /\ Persisted(c) # {}

\* C5: after the commit, create delivers the same outcome to its caller
\* whether its Notify calls succeeded or one of them failed: it returns the
\* created aggregate.
C5_SameOutcomeWhateverDispatch ==
  \A c \in Calls :
    (Done(c) /\ txn[c].state = "commit" /\ call[c].failedAt \in {"none", "dispatch"}) =>
      /\ call[c].pc = "returned"
      /\ call[c].result = call[c].newRow

\* C6: every Notify call is issued by a call whose transaction has committed,
\* and a call whose transaction rolled back has issued none.
C6_DispatchOnlyAfterCommit ==
  /\ \A i \in 1..Len(outbox) : txn[outbox[i].call].state = "commit"
  /\ \A c \in Calls : txn[c].state = "rollback" => Sent(c) = <<>>

\* A Notify call has been issued by a create that committed an amendment.
C6_Witness ==
  \E c \in Calls :
    /\ call[c].ctl \in AmendCtls
    /\ txn[c].state = "commit"
    /\ Len(Sent(c)) > 0

\* The join rows of a table committed for the amendment of call c that link
\* it to the catalogue id v.
Links(c, table, field, v) ==
  {x \in db[table] : x.AmendmentId = call[c].amendmentId /\ x[field] = v}

\* The entries of a list that name the catalogue id v.
Entries(list, v) == {i \in 1..Len(list) : list[i].id = v}

\* C7: in amendment create the transaction commits only once every join-row
\* insert has settled; the links committed are those of the two lists, one
\* row an entry, whatever the order the inserts settled in; and when one of
\* them fails no row of the call is committed.
C7_JoinRowsAllBeforeCommit ==
  \A c \in Calls :
    call[c].ctl \in AmendCtls =>
      /\ txn[c].state = "commit" =>
           /\ call[c].inflight = {}
           /\ \A e \in ConditionEntries :
                Cardinality(Links(c, "AmendCondition", "ConditionId", e.id))
                  = Cardinality(Entries(call[c].optionalConditions.list, e.id))
           /\ \A e \in AdvisoryEntries :
                Cardinality(Links(c, "AmendAdvisory", "AdvisoryId", e.id))
                  = Cardinality(Entries(call[c].optionalAdvisories.list, e.id))
      /\ (call[c].failedAt = "insert" /\ call[c].newRow # 0) => Persisted(c) = {}

\* An amendment committed whose two condition inserts settled in the reverse
\* of the order of the list.
C7_Witness ==
  \E c \in Calls :
    /\ call[c].ctl \in AmendCtls
    /\ txn[c].state = "commit"
    /\ Len(call[c].optionalConditions.list) = 2
    /\ \E x, y \in db["AmendCondition"] :
         /\ x.AmendmentId = call[c].amendmentId /\ y.AmendmentId = call[c].amendmentId
         /\ x.id < y.id
         /\ x.ConditionId = call[c].optionalConditions.list[2].id
         /\ y.ConditionId = call[c].optionalConditions.list[1].id
         /\ x.ConditionId # y.ConditionId

\* The addresses of the Notify calls call c issued, in order.
Recipients(c) == [i \in 1..Len(Sent(c)) |-> Sent(c)[i].to]

\* The addresses amendment create is to send to: the holder's and the
\* applicant's when present, and the internal mailbox.
AmendRecipients(incoming) ==
  (IF incoming.licenceHolderEmailAddress # NoAddr
     THEN <<incoming.licenceHolderEmailAddress>> ELSE <<>>)
  \o (IF incoming.licenceApplicantEmailAddress # NoAddr
        THEN <<incoming.licenceApplicantEmailAddress>> ELSE <<>>)
  \o <<InternalMailbox>>

\* C8: with a Notify key and a committed amendment, amendment create issues
\* one call to the holder's address if present, one to the applicant's if
\* present, and one to the internal mailbox, and no other.
C8_AmendDispatchCount ==
  \A c \in Calls :
    (call[c].ctl \in AmendCtls /\ notifyApiKey /\ txn[c].state = "commit" /\ Done(c)) =>
      Recipients(c) = AmendRecipients(call[c].incoming)

\* The same, of the calls of create that returned.
C8_CountWhenReturned ==
  \A c \in Calls :
    (call[c].ctl \in AmendCtls /\ notifyApiKey /\ call[c].pc = "returned") =>
      Recipients(c) = AmendRecipients(call[c].incoming)

\* C9: every Notify call of an amendment create carries the data-complete
\* personalisation built from the application and the re-read amendment, the
\* same for every recipient; none carries the address alone.
C9_SameCompleteContent ==
  \A i \in 1..Len(outbox) :
    LET c == outbox[i].call IN
    call[c].ctl \in AmendCtls =>
      /\ outbox[i].personalisation.complete
      /\ outbox[i].personalisation
           = Personalisation(call[c].incoming.LicenceId, AmendmentFindOne(call[c].amendmentId))

\* The same, of the calls of create in part_002.
C9_CompleteInPart002 ==
  \A i \in 1..Len(outbox) :
    LET c == outbox[i].call IN
    call[c].ctl = "part_002" =>
      /\ outbox[i].personalisation.complete
      /\ outbox[i].personalisation
           = Personalisation(call[c].incoming.LicenceId, AmendmentFindOne(call[c].amendmentId))

\* C10: with a Notify key and a committed return: when holder and applicant
\* are the same contact exactly one Notify call is issued; when they are two
\* contacts that both have an address exactly two are issued, with the same
\* emailDetails.
C10_ReturnDispatchCount ==
  \A c \in Calls :
    (call[c].ctl = "returns.ts" /\ notifyApiKey /\ txn[c].state = "commit" /\ Done(c)) =>
      LET h == call[c].licenceHolder
          a == call[c].licenceApplicant
      IN /\ SameContact(h, a) => Len(Sent(c)) = 1
         /\ (h.found /\ a.found /\ h.id # a.id /\ h.emailAddress # NoAddr /\ a.emailAddress # NoAddr) =>
              /\ Len(Sent(c)) = 2
              /\ Sent(c)[1].personalisation = Sent(c)[2].personalisation

\* The same, of the calls of create that returned.
C10_CountWhenReturned ==
  \A c \in Calls :
    (call[c].ctl = "returns.ts" /\ notifyApiKey /\ call[c].pc = "returned") =>
      LET h == call[c].licenceHolder
          a == call[c].licenceApplicant
      IN /\ SameContact(h, a) => Len(Sent(c)) = 1
         /\ (h.found /\ a.found /\ h.id # a.id /\ h.emailAddress # NoAddr /\ a.emailAddress # NoAddr) =>
              /\ Len(Sent(c)) = 2
              /\ Sent(c)[1].personalisation = Sent(c)[2].personalisation

\* The rows call c inserted in a table.
RowsIn(c, table) == {x[2] : x \in {y \in call[c].inserted : y[1] = table}}

\* C11: without a Notify key (config.notifyApiKey) every dispatch completes
\* without error and issues no outbound call: the outbox stays empty and no
\* create fails at a dispatch.  The rows create persists do not depend on
\* the key: with or without it, a call that has left its transaction without
\* a failed insert has committed every row it was to insert.
C11_NoKeyNoCall ==
  /\ ~notifyApiKey =>
       /\ outbox = <<>>
       /\ \A c \in Calls : call[c].failedAt # "dispatch"
  /\ \A c \in Calls :
       PastTransaction(c) =>
         /\ Persisted(c) = call[c].inserted
         /\ IF call[c].ctl = "returns.ts" THEN ReturnComplete(c) ELSE AmendComplete(c)

\* Without a Notify key an amendment create with both addresses given has
\* gone through its three dispatches and returned, its rows committed.
C11_Witness ==
  \E c \in Calls :
    /\ ~notifyApiKey
    /\ call[c].ctl \in AmendCtls
    /\ call[c].pc = "returned"
    /\ call[c].incoming.licenceHolderEmailAddress # NoAddr
    /\ call[c].incoming.licenceApplicantEmailAddress # NoAddr
    /\ call[c].payloads # {}
    /\ Persisted(c) = call[c].inserted

\* C12: findOne on the id of a committed amendment returns what create
\* inserted: the species keys of the call, under each alias the activity row
\* inserted for that slot, the AmendCondition and AmendAdvisory rows the call
\* inserted and no other, and the amendReason and amendedBy that the Note of
\* the call carries.
C12_FindOneRoundTrip ==
  \A c \in Calls :
    (call[c].ctl \in AmendCtls /\ txn[c].state = "commit") =>
      LET d == AmendmentFindOne(call[c].amendmentId) IN
      /\ d.found /\ d.speciesFound
      /\ d.ids = call[c].speciesIds
      /\ DOMAIN d.loaded = {IncludeAlias[s] : s \in call[c].payloads}
      /\ \A s \in call[c].payloads :
           /\ d.loaded[IncludeAlias[s]] \in RowsIn(c, "AActivity")
           /\ d.loaded[IncludeAlias[s]].slot = s
      /\ d.AmendConditions = RowsIn(c, "AmendCondition")
      /\ d.AmendAdvisories = RowsIn(c, "AmendAdvisory")
      /\ \A n \in RowsIn(c, "Note") : n.Note = d.amendReason /\ n.createdBy = d.amendedBy
      /\ RowsIn(c, "Note") # {}

\* An amendment with two species, a condition and an advisory is committed
\* beside the amendment of an earlier request.
C12_Witness ==
  \E c \in Calls :
    /\ call[c].ctl \in AmendCtls /\ txn[c].state = "commit"
    /\ call[c].amendmentId > 1
    /\ Cardinality(call[c].payloads) = 2
    /\ RowsIn(c, "AmendCondition") # {}
    /\ RowsIn(c, "AmendAdvisory") # {}
    /\ AmendmentFindOne(call[c].amendmentId).AmendConditions # db["AmendCondition"]

\* Every activity row of call c is read under the alias findOne loads it under.
AliasesAgree(c) ==
  call[c].ctl = "part_002" => \A s \in call[c].payloads : ReadAlias[s] = IncludeAlias[s]

\* A read call c made after its commit found nothing: the application of the
\* amendment; the application, the site address or a contact of the return.
AbsentRead(c) ==
  IF call[c].ctl \in AmendCtls
    THEN call[c].application = "null"
    ELSE \/ ~call[c].applicationDetails.found
         \/ ~call[c].siteAddress
         \/ ~call[c].licenceHolder.found
         \/ ~call[c].licenceApplicant.found

\* C13: a create that committed, and whose read for the notification found
\* nothing, does not abort: it ends by returning the created aggregate.
\* (Calls that ended on a failed Notify call, or on an activity row read
\* under another alias, are left aside.)
C13_AbsentReadDoesNotAbort ==
  \A c \in Calls :
    (/\ Done(c) /\ txn[c].state = "commit"
     /\ call[c].failedAt # "dispatch"
     /\ AliasesAgree(c)
     /\ AbsentRead(c)) =>
      /\ call[c].pc = "returned"
      /\ call[c].result = call[c].newRow

\* Call c has composed the e-mail of its amendment, text and all.
Composed(c) ==
  /\ call[c].ctl = "part_002" /\ call[c].pc = "holder" /\ call[c].failedAt = "none"
  /\ call[c].emailDetails.complete

\* The species aggregate committed for the amendment of call c.
Aggregate(c) == {x \in db["ASpecies"] : x.id = call[c].incoming.SpeciesId}

\* C14, as claimed: given no species payload, the aggregate is inserted with
\* its five species keys absent, and the permitted-activities text and the
\* conservation-status text composed are both empty.
C14_ZeroSpeciesEmptyText ==
  \A c \in Calls :
    (Composed(c) /\ call[c].payloads = {}) =>
      /\ \A x \in Aggregate(c) : x.ids = NoIds
      /\ Aggregate(c) # {}
      /\ call[c].emailDetails.permittedActivities = ""
      /\ call[c].emailDetails.conservationStatus = ""

\* C14, amended: given no species payload, the aggregate is inserted with its
\* five species keys absent, the conservation-status text composed is empty,
\* and the permitted-activities text is the introductory sentence with its
\* newline and no line of any species.
C14_ZeroSpeciesHeaderOnly ==
  \A c \in Calls :
    (Composed(c) /\ call[c].payloads = {}) =>
      /\ \A x \in Aggregate(c) : x.ids = NoIds
      /\ Aggregate(c) # {}
      /\ call[c].emailDetails.permittedActivities
           = "Numbers permitted for amended activities are the total for the site, not additional to those already permitted.\n"
      /\ call[c].emailDetails.conservationStatus = ""

\* The e-mail of an amendment of no species has been composed.
C14_Witness ==
  \E c \in Calls :
    /\ Composed(c) /\ call[c].payloads = {}
    /\ call[c].amendmentDetails.AmendConditions # {}

\* The activity row committed for slot s of the amendment of call c.
ActivityOf(c, s) == CHOOSE x \in db["AActivity"] : x.id = call[c].speciesIds[s]

\* The entries the permitted-activities text is to have for the slots from s
\* on: for every species given, the lines of its activities.
RECURSIVE EntriesFrom(_, _)
EntriesFrom(c, s) ==
  IF s > 5 THEN <<>>
  ELSE (IF s \in call[c].payloads
          THEN <<addActivities(ActivityOf(c, s), SpeciesNames[s])>> ELSE <<>>)
       \o EntriesFrom(c, s + 1)

\* C15: whatever subset of the species is given a payload, the composition
\* after the commit completes (the application and the amendment being
\* there), and the permitted-activities text has, for every species given,
\* the lines of the activities of its payload under that species' name.
C15_EverySubsetComposes ==
  \A c \in Calls :
    (/\ call[c].ctl = "part_002" /\ call[c].pc \in {"holder", "threw"}
     /\ call[c].application = "full" /\ call[c].amendmentDetails.found) =>
      /\ call[c].pc = "holder"
      /\ call[c].emailDetails.permittedActivities
           = Join(<<PermittedHeader>> \o EntriesFrom(c, 1), "\n")

\* The same, of the amendments of herring gull and common gull alone.
C15_HerringAndCommonCompose ==
  \A c \in Calls :
    (/\ call[c].ctl = "part_002" /\ call[c].pc \in {"holder", "threw"}
     /\ call[c].application = "full" /\ call[c].amendmentDetails.found
     /\ call[c].payloads \subseteq {1, 3}) =>
      /\ call[c].pc = "holder"
      /\ call[c].emailDetails.permittedActivities
           = Join(<<PermittedHeader>> \o EntriesFrom(c, 1), "\n")

\* The scenario: herringAmend = {removeNests: true, quantityNestsToRemove: 3}
\* alone, and no condition or advisory.
NestsScenario(c) ==
  /\ call[c].payloads = {1}
  /\ \A x \in db["AActivity"] : x = [id |-> 1, slot |-> 1] @@ NestsOnly
  /\ db["AmendCondition"] = {} /\ db["AmendAdvisory"] = {}

\* C16, as claimed: in the scenario the permitted-activities text is exactly
\* the one line of the herring gull, and the advisory, general,
\* what-you-must-do and reporting texts are empty.
C16_ScenarioOneLine ==
  \A c \in Calls :
    (Composed(c) /\ NestsScenario(c)) =>
      /\ call[c].emailDetails.permittedActivities
           = "Herring gull: To take and destroy 3 nests and any eggs they contain by hand."
      /\ call[c].emailDetails.advisoryNotes = ""
      /\ call[c].emailDetails.generalConditionsList = ""
      /\ call[c].emailDetails.whatYouMustDoConditionsList = ""
      /\ call[c].emailDetails.reportingConditionsList = ""

\* C16, amended: in the scenario the permitted-activities text is the
\* introductory sentence, an empty line and exactly one line of activities,
\* that of the herring gull; the advisory, general, what-you-must-do and
\* reporting texts are empty, and their has... fields say 'no'.
C16_ScenarioHeaderAndOneLine ==
  \A c \in Calls :
    (Composed(c) /\ NestsScenario(c)) =>
      /\ call[c].emailDetails.permittedActivities
           = "Numbers permitted for amended activities are the total for the site, not additional to those already permitted.\n\nHerring gull: To take and destroy 3 nests and any eggs they contain by hand."
      /\ call[c].emailDetails.advisoryNotes = ""
      /\ call[c].emailDetails.generalConditionsList = ""
      /\ call[c].emailDetails.whatYouMustDoConditionsList = ""
      /\ call[c].emailDetails.reportingConditionsList = ""
      /\ call[c].emailDetails.hasAdvisoryNotes = "no"
      /\ call[c].emailDetails.hasGeneral = "no"
      /\ call[c].emailDetails.hasWhatYouMustDo = "no"
      /\ call[c].emailDetails.hasRecording = "no"

\* The e-mail of the scenario has been composed.
C16_Witness == \E c \in Calls : Composed(c) /\ NestsScenario(c)

\* The text of condition id is an element of a condition list.
InBlock(id, block) == \E i \in 1..Len(block) : block[i] = ConditionText(id)

\* The blocks, of the three, that hold the text of condition id.
BlocksOf(id, conditions) ==
  {b \in {"general", "whatYouMustDo", "reporting"} :
     InBlock(id, CASE b = "general" -> ConditionList(conditions, optionalGeneralConditionIds)
                   [] b = "whatYouMustDo" -> ConditionList(conditions, optionalWhatMustBeDoneConditionIds)
                   [] b = "reporting" -> ConditionList(conditions, optionalReportingConditionIds))}

\* C17: of the conditions linked to a composed amendment, one whose id is in
\* {19..25} is in the reporting block and in no other; every condition is in
\* at most one of the three blocks, the one whose id set ({12,13}, {4,6,7},
\* {19..25}) has its id; one whose id is in none of the sets is in no block;
\* and a block's text is empty exactly when no linked id is in its set.
C17_OneBlockPerCondition ==
  \A c \in Calls :
    Composed(c) =>
      LET conditions == call[c].amendmentDetails.AmendConditions
          linked == {x.ConditionId : x \in conditions}
      IN /\ \A id \in linked :
              /\ id \in 19..25 => BlocksOf(id, conditions) = {"reporting"}
              /\ id \in {12, 13} => BlocksOf(id, conditions) = {"general"}
              /\ id \in {4, 6, 7} => BlocksOf(id, conditions) = {"whatYouMustDo"}
              /\ id \notin (19..25) \cup {12, 13} \cup {4, 6, 7} => BlocksOf(id, conditions) = {}
              /\ Cardinality(BlocksOf(id, conditions)) <= 1
         /\ call[c].emailDetails.reportingConditionsList = "" <=> linked \cap (19..25) = {}
         /\ call[c].emailDetails.generalConditionsList = "" <=> linked \cap {12, 13} = {}
         /\ call[c].emailDetails.whatYouMustDoConditionsList = "" <=> linked \cap {4, 6, 7} = {}

\* An e-mail composed of an amendment linked to a condition of each block and
\* to one of none.
C17_Witness ==
  \E c \in Calls :
    /\ Composed(c)
    /\ {x.ConditionId : x \in call[c].amendmentDetails.AmendConditions} = {4, 12, 19, 30}
    /\ call[c].emailDetails.reportingConditionsList = "condition 19"

\* The requests of the reminder job that were written to the server.
Issued == {i \in 1..Len(reminder.requests) : reminder.requests[i].ended}

\* C18: every firing of the daily job issues exactly one HTTPS PATCH call to
\* /reminder: the calls issued are as many as the firings, each a PATCH of
\* /reminder, and the job leaves the application state alone.
C18_OneCallPerFiring ==
  /\ Cardinality(Issued) = reminder.fired
  /\ Len(reminder.requests) = reminder.fired
  /\ \A i \in 1..Len(reminder.requests) :
       /\ reminder.requests[i].options.method = "PATCH"
       /\ reminder.requests[i].options.path = "/reminder"

\* The Note an amendment is recorded by.
NoteOf(a) ==
  [Note |-> a.amendReason, createdBy |-> a.amendedBy, ApplicationId |-> a.LicenceId]

\* What a Note row says, its key apart.
Said(n) == [Note |-> n.Note, createdBy |-> n.createdBy, ApplicationId |-> n.ApplicationId]

\* C19: after any sequence of amendment creates the Note rows are as many as
\* the committed Amendment rows, and the committed amendments have one Note
\* each with Note = amendReason, createdBy = amendedBy and ApplicationId =
\* LicenceId: every text is on as many Notes as there are amendments it
\* records.  A rolled-back amendment leaves no Note.
C19_OneNotePerAmendment ==
  /\ Cardinality(db["Note"]) = Cardinality(db["Amendment"])
  /\ \A a \in db["Amendment"] :
       Cardinality({n \in db["Note"] : Said(n) = NoteOf(a)})
         = Cardinality({b \in db["Amendment"] : NoteOf(b) = NoteOf(a)})
  /\ \A n \in db["Note"] : \E a \in db["Amendment"] : NoteOf(a) = Said(n)

\* Three amendments are committed, with Notes of different texts, and an
\* amendment was rolled back on the way: a key of Amendment is used by no row.
C19_Witness ==
  /\ Cardinality(db["Amendment"]) >= 3
  /\ nextId["Amendment"] > Cardinality(db["Amendment"]) + 1
  /\ Cardinality({Said(n) : n \in db["Note"]}) >= 2

\* C20: over any sequence of create, findOne and findAll calls on the two
\* controllers a committed row is never updated: every step keeps every
\* committed row as it is and keeps the keys of a table distinct, and a step
\* of findOne or findAll leaves the persisted state as it is.
C20_RowsNeverUpdated ==
  [][/\ \A t \in Tables :
          /\ db[t] \subseteq db'[t]
          /\ \A x, y \in db'[t] : x.id = y.id => x = y
     /\ \A c \in Calls :
          call'[c].pc = "found" => db' = db /\ nextId' = nextId /\ txn' = txn]_vars

\* A findAll has resolved with the amendments, one of them of this sequence
\* of requests, after a return was committed too.
C20_Witness ==
  \E c \in Calls :
    /\ call[c].pc = "found"
    /\ Cardinality(call[c].rows) >= 2
    /\ call[c].rows = db["Amendment"]
    /\ Cardinality(db["Returns"]) >= 2

\* The tables a controller inserts activity details, aggregate and parent in.
ActivityTable(ctl) == IF ctl = "returns.ts" THEN "ReturnActivity" ELSE "AActivity"
AggregateTable(ctl) == IF ctl = "returns.ts" THEN "ReturnSpecies" ELSE "ASpecies"
ParentTable(ctl) == IF ctl = "returns.ts" THEN "Returns" ELSE "Amendment"

\* The aggregate row g carries, for the slots of the payloads given to call c
\* and no other, the key of the activity row the call inserted for the slot.
KeysOfOwnActivities(c, g) ==
  \A s \in Slots :
    IF s \in call[c].payloads
      THEN \E a \in RowsIn(c, ActivityTable(call[c].ctl)) : a.id = g.ids[s] /\ a.slot = s
      ELSE g.ids[s] = 0

\* C21: in every committed amendment or return the activity rows inserted are
\* as many as the species payloads given; the aggregate row has a species key
\* set for the slots of the payloads given and no other, each the key of the
\* activity row inserted for that slot in the same call; the parent row's
\* SpeciesId is the key of that aggregate row.  The aggregate is inserted
\* after the five slots have been dealt with, the parent after the aggregate.
C21_KeysFollowPayloads ==
  \A c \in Calls :
    LET ctl == call[c].ctl
        aggregates == RowsIn(c, AggregateTable(ctl))
        parents == RowsIn(c, ParentTable(ctl))
    IN /\ aggregates # {} => call[c].slot = 6
       /\ parents # {} => aggregates # {}
       /\ \A g \in aggregates : KeysOfOwnActivities(c, g)
       /\ \A p \in parents : \A g \in aggregates : p.SpeciesId = g.id
       /\ txn[c].state = "commit" =>
            /\ Cardinality(RowsIn(c, ActivityTable(ctl))) = Cardinality(call[c].payloads)
            /\ Cardinality(aggregates) = 1 /\ Cardinality(parents) = 1
            /\ \A t \in {ActivityTable(ctl), AggregateTable(ctl), ParentTable(ctl)} :
                 RowsIn(c, t) \subseteq db[t]

\* A return of the black-headed and the lesser black-backed gull is committed
\* beside the rows of an earlier request.
C21_Witness ==
  \E c \in Calls :
    /\ call[c].ctl = "returns.ts" /\ txn[c].state = "commit"
    /\ call[c].payloads = {2, 5}
    /\ \E p \in RowsIn(c, "Returns") : p.id > 1 /\ p \in db["Returns"]

\* The condition id of an entry of optionalConditions: the property
\* ConditionInterface declares, Id, or the property id of an entry that has it.
ConditionIdOf(entry) == IF "Id" \in DOMAIN entry THEN entry.Id ELSE entry.id

\* How many entries of a list have the id v, and how many rows link it.
EntriesWith(list, IdOf(_), v) == Cardinality({i \in 1..Len(list) : IdOf(list[i]) = v})

\* C22: in a committed amendment every entry of optionalConditions has one
\* AmendCondition row with the new amendment's id and the entry's condition
\* id, and every entry of optionalAdvisories one AmendAdvisory row with the
\* entry's advisory id: the rows of a kind are as many as the entries, all of
\* this amendment, and an id is linked as often as it is listed.  An
\* undefined list has no row.
C22_JoinRowPerEntry ==
  \A c \in Calls :
    (call[c].ctl \in AmendCtls /\ txn[c].state = "commit") =>
      LET conditions == call[c].optionalConditions.list
          advisories == call[c].optionalAdvisories.list
          crows == RowsIn(c, "AmendCondition")
          arows == RowsIn(c, "AmendAdvisory")
      IN /\ Cardinality(crows) = Len(conditions)
         /\ Cardinality(arows) = Len(advisories)
         /\ crows \subseteq db["AmendCondition"] /\ arows \subseteq db["AmendAdvisory"]
         /\ \A x \in crows \cup arows : x.AmendmentId = call[c].amendmentId
         /\ \A i \in 1..Len(conditions) :
              LET v == ConditionIdOf(conditions[i]) IN
              Cardinality({x \in crows : x.ConditionId = v}) = EntriesWith(conditions, ConditionIdOf, v)
         /\ \A i \in 1..Len(advisories) :
              LET v == PropertyId(advisories[i]) IN
              Cardinality({x \in arows : x.AdvisoryId = v}) = EntriesWith(advisories, PropertyId, v)

\* The addresses return create is to send to when holder and applicant are
\* not the same contact: the holder's and the applicant's when present.
PresentAddresses(holder, applicant) ==
  (IF holder.found /\ holder.emailAddress # NoAddr THEN <<holder.emailAddress>> ELSE <<>>)
  \o (IF applicant.found /\ applicant.emailAddress # NoAddr
        THEN <<applicant.emailAddress>> ELSE <<>>)

\* The addresses the dispatch statements of call c are to send to.
DispatchesDue(c) ==
  IF call[c].ctl \in AmendCtls
    THEN AmendRecipients(call[c].incoming)
    ELSE IF SameContact(call[c].licenceHolder, call[c].licenceApplicant)
      THEN <<call[c].licenceHolder.emailAddress>>
      ELSE PresentAddresses(call[c].licenceHolder, call[c].licenceApplicant)

\* C23: the dispatches of one create are independent: when a dispatch has
\* failed, the dispatches to the remaining recipients have been issued all
\* the same by the time create ends.
C23_DispatchesIndependent ==
  \A c \in Calls :
    (Done(c) /\ call[c].failedAt = "dispatch") => Recipients(c) = DispatchesDue(c)

\* C24: for a committed return whose holder and applicant are not the same
\* contact (either may be absent), the Notify calls are one to each present
\* address among the holder's and the applicant's, zero, one or two, and none
\* to another address.
C24_OneCallPerPresentAddress ==
  \A c \in Calls :
    (/\ call[c].ctl = "returns.ts" /\ notifyApiKey /\ txn[c].state = "commit" /\ Done(c)
     /\ ~SameContact(call[c].licenceHolder, call[c].licenceApplicant)) =>
      Recipients(c) = PresentAddresses(call[c].licenceHolder, call[c].licenceApplicant)

\* The same, of the calls of create that returned.
C24_CountWhenReturned ==
  \A c \in Calls :
    (/\ call[c].ctl = "returns.ts" /\ notifyApiKey /\ call[c].pc = "returned"
     /\ ~SameContact(call[c].licenceHolder, call[c].licenceApplicant)) =>
      Recipients(c) = PresentAddresses(call[c].licenceHolder, call[c].licenceApplicant)

\* The six activity flags of a return payload, in the order of their lines.
ReturnFlags ==
  <<"removeNests", "eggDestruction", "chicksToRescueCentre", "chicksRelocatedNearby",
    "killChicks", "killAdults">>

\* How many flags a payload has set.
FlagsSet(activities) == Cardinality({i \in 1..Len(ReturnFlags) : Flag(activities, ReturnFlags[i])})

\* The flags set in a payload that are given a line: every flag but that of
\* the nests when no nest was removed.
FlagsWithLine(activities) ==
  FlagsSet(activities)
    - (IF Flag(activities, "removeNests") /\ activities.quantityNestsRemoved = 0 THEN 1 ELSE 0)

\* Return create of call c has composed the text of its e-mail.
ReturnComposed(c) ==
  /\ call[c].ctl = "returns.ts"
  /\ call[c].pc \in {"holder", "applicant", "return", "returned"}
  /\ call[c].failedAt = "none"

\* The blocks of the species present from slot s on, in the order of the slots.
RECURSIVE BlocksInOrder(_, _)
BlocksInOrder(returnDetails, s) ==
  IF s > 5 THEN <<>>
  ELSE (IF ReturnKeys[s] \in DOMAIN returnDetails
          THEN <<Join(returnActivities(returnDetails[ReturnKeys[s]], ReturnSpeciesNames[s]), "\n")>>
          ELSE <<>>)
       \o BlocksInOrder(returnDetails, s + 1)

\* C25: the return-details text has, for every species payload present and
\* every activity flag set in it, one line naming the species, the action,
\* its quantities and its date; the species come in the order Herring,
\* Black-headed, Common, Great black-backed, Lesser black-backed; with no
\* payload the text is empty.
C25_LinePerFlag ==
  \A c \in Calls :
    ReturnComposed(c) =>
      LET returnDetails == call[c].returnDetails IN
      /\ \A s \in call[c].payloads :
           Len(returnActivities(returnDetails[ReturnKeys[s]], ReturnSpeciesNames[s]))
             = FlagsSet(returnDetails[ReturnKeys[s]])
      /\ call[c].emailDetails.returnDetails = Join(BlocksInOrder(returnDetails, 1), "\n")
      /\ call[c].payloads = {} => call[c].emailDetails.returnDetails = ""

\* The same, with the line of the nests only where a nest was removed: every
\* flag set has one line, but removeNests has one only when
\* quantityNestsRemoved is not 0.  A herring gull payload of 3 nests and 5
\* eggs removed on 3 May 2022, alone, gives the one line quoted.
C25_LinePerFlagWithNests ==
  \A c \in Calls :
    ReturnComposed(c) =>
      LET returnDetails == call[c].returnDetails IN
      /\ \A s \in call[c].payloads :
           Len(returnActivities(returnDetails[ReturnKeys[s]], ReturnSpeciesNames[s]))
             = FlagsWithLine(returnDetails[ReturnKeys[s]])
      /\ call[c].emailDetails.returnDetails = Join(BlocksInOrder(returnDetails, 1), "\n")
      /\ call[c].payloads = {} => call[c].emailDetails.returnDetails = ""
      /\ (call[c].payloads = {1} /\ FlagsSet(returnDetails["Herring Gull"]) = 1
            /\ returnDetails["Herring Gull"].quantityEggsRemoved = 5) =>
           call[c].emailDetails.returnDetails
             = "Herring gull - 3 nests removed and 5 eggs removed on 03/05/2022"

\* A return of three species is composed: one with every activity, one with
\* the nests flag and no nest removed, one with no activity.
C25_Witness ==
  \E c \in Calls :
    /\ ReturnComposed(c)
    /\ Cardinality(call[c].payloads) = 3
    /\ \E s \in call[c].payloads : FlagsSet(call[c].returnDetails[ReturnKeys[s]]) = 6
    /\ \E s \in call[c].payloads :
         /\ FlagsSet(call[c].returnDetails[ReturnKeys[s]]) = 1
         /\ FlagsWithLine(call[c].returnDetails[ReturnKeys[s]]) = 0
    /\ \E s \in call[c].payloads : FlagsSet(call[c].returnDetails[ReturnKeys[s]]) = 0

\* C26: no notification call is made with an absent recipient address: every
\* dispatch handed to the notification service carries an address, also the
\* single dispatch made when holder and applicant are the same contact.
C26_NoAbsentRecipient ==
  \A i \in 1..Len(outbox) : outbox[i].to # NoAddr

\* The same for the dispatches of amendment create alone, which tests both
\* addresses and sends to a fixed mailbox.
C26_AmendmentRecipientsPresent ==
  \A i \in 1..Len(outbox) :
    call[outbox[i].call].ctl # "returns.ts" => outbox[i].to # NoAddr

\* The keys of the rows call c inserted into a table.
KeysIn(c, table) == {x.id : x \in RowsIn(c, table)}

\* The committed parent row of call c refers to rows of call c alone: its
\* SpeciesId is the key of the aggregate row c inserted, the species keys of
\* that aggregate are keys of activity rows c inserted, and the condition and
\* advisory rows that carry the parent's key are rows c inserted.
ParentRefersToOwnRows(c) ==
  LET ctl == call[c].ctl IN
  \E p \in db[ParentTable(ctl)] :
    /\ p.id = call[c].newRow
    /\ p \in RowsIn(c, ParentTable(ctl))
    /\ \E g \in RowsIn(c, AggregateTable(ctl)) \cap db[AggregateTable(ctl)] :
         /\ p.SpeciesId = g.id
         /\ \A s \in Slots :
              g.ids[s] # 0 =>
                \E a \in RowsIn(c, ActivityTable(ctl)) \cap db[ActivityTable(ctl)] :
                  a.id = g.ids[s] /\ a.slot = s
    /\ ctl # "returns.ts" =>
         \A t \in {"AmendCondition", "AmendAdvisory"} :
           {x \in db[t] : x.AmendmentId = p.id} = RowsIn(c, t)

\* C27: two calls of create that run at once, interleaved at every await, do
\* not interfere: the committed parent row of a call refers only to the
\* aggregate, activity, join and note rows its own call inserted, every row
\* of a committed call is in the database, the keys of the rows of one call
\* are not keys of the rows of the other, and a call that failed has left
\* none of its rows while the rows of the other stay.
C27_CallsDoNotInterfere ==
  \A c \in DOMAIN call :
    /\ txn[c].state = "commit" =>
         /\ ParentRefersToOwnRows(c)
         /\ \A t \in Tables : RowsIn(c, t) \subseteq db[t]
    /\ txn[c].state = "rollback" =>
         \A t \in Tables : KeysIn(c, t) \cap {x.id : x \in db[t]} = {}
    /\ \A d \in DOMAIN call \ {c} : \A t \in Tables : KeysIn(c, t) \cap KeysIn(d, t) = {}
    /\ \A t \in Tables :
         {x.id : x \in db[t]} \subseteq
           UNION {KeysIn(d, t) : d \in {e \in DOMAIN call : txn[e].state = "commit"}}

\* Two amendments are committed whose inserts interleaved: the activity rows
\* of one have the keys 1 and 3, that of the other the key 2, and each has a
\* condition row and a note.
C27_Witness ==
  \E c \in DOMAIN call, d \in DOMAIN call :
    /\ c # d
    /\ txn[c].state = "commit" /\ txn[d].state = "commit"
    /\ call[c].ctl = "part_002" /\ call[d].ctl = "part_002"
    /\ KeysIn(c, "AActivity") = {1, 3} /\ KeysIn(d, "AActivity") = {2}
    /\ KeysIn(c, "AmendCondition") # {} /\ KeysIn(d, "AmendCondition") # {}
    /\ KeysIn(c, "Note") # {} /\ KeysIn(d, "Note") # {}

\* One return is committed and the other, whose rows were inserted between
\* the rows of the first, has failed.
C27_OneFails ==
  \E c \in DOMAIN call, d \in DOMAIN call :
    /\ txn[c].state = "commit" /\ txn[d].state = "rollback"
    /\ call[c].ctl = "returns.ts" /\ call[d].ctl = "returns.ts"
    /\ KeysIn(c, "ReturnActivity") = {1, 3} /\ KeysIn(d, "ReturnActivity") = {2}

====
